---- MODULE Spec2Model ----
(***************************************************************************)
(* A model of the Fruti compiler front-end (packages/fruti-compiler):      *)
(* lexer with automatic semicolon insertion, recursive-descent parser,     *)
(* two-pass semantic analyzer, textual IR emitter and the driver that      *)
(* chains them.                                                            *)
(*                                                                         *)
(* The source text is a sequence of one-character strings; all characters  *)
(* of the model are ASCII, so a byte offset is an index into the sequence  *)
(* (offset p is element p+1).                                              *)
(***************************************************************************)
EXTENDS Integers, Sequences, FiniteSets, TLC

\* Longest source text enumerated exhaustively over Alphabet.
MaxSrcLen == 4

VARIABLES
    source,             \* Lexer.source, as a sequence of characters
    position,           \* Lexer.position (byte offset)
    last_token,         \* Lexer.last_token: a TokenKind name, or None
    pending_semicolon,  \* Lexer.pending_semicolon.is_some()
    tokens,             \* the Vec<Token> that tokenize() accumulates
    ast,                \* the Module that parse_module returned
    symbols,            \* TypeChecker.symbols.scopes: the stack of scopes
    current_function_return, \* TypeChecker.current_function_return
    item_index,         \* position of check_module's running loop in module.items
    log,                \* history of the checker's defines, returns and bodies
    ir,                 \* the text generate_module returned, piece by piece
    stage,              \* where the driver is in the pipeline
    error               \* the first diagnostic returned, or NoError

lexer_vars == <<source, position, last_token, pending_semicolon, tokens>>

checker_vars == <<symbols, current_function_return, item_index, log>>

vars == <<lexer_vars, ast, checker_vars, ir, stage, error>>

----------------------------------------------------------------------------
(* Shared data model: spans, tokens, errors                                *)

None == "None"
NoChar == ""

Span(s, e) == [start |-> s, end |-> e]

Token(kind, text, start, end) == [kind |-> kind, text |-> text, span |-> Span(start, end)]

NoError == [kind |-> "NoError", span |-> Span(0, 0)]

Error(kind, span) == [kind |-> kind, span |-> span]

from_keyword(s) ==
    CASE s = "if" -> "If"
      [] s = "else" -> "Else"
      [] s = "while" -> "While"
      [] s = "for" -> "For"
      [] s = "in" -> "In"
      [] s = "loop" -> "Loop"
      [] s = "break" -> "Break"
      [] s = "continue" -> "Continue"
      [] s = "return" -> "Return"
      [] s = "match" -> "Match"
      [] s = "fn" -> "Fn"
      [] s = "let" -> "Let"
      [] s = "mut" -> "Mut"
      [] s = "const" -> "Const"
      [] s = "struct" -> "Struct"
      [] s = "enum" -> "Enum"
      [] s = "trait" -> "Trait"
      [] s = "impl" -> "Impl"
      [] s = "type" -> "Type"
      [] s = "import" -> "Import"
      [] s = "self" -> "SelfLower"
      [] s = "Self" -> "SelfUpper"
      [] s = "own" -> "Own"
      [] s = "ref" -> "Ref"
      [] s = "as" -> "As"
      [] s = "is" -> "Is"
      [] s = "pub" -> "Pub"
      [] s = "async" -> "Async"
      [] s = "await" -> "Await"
      [] s = "and" -> "And"
      [] s = "or" -> "Or"
      [] s = "not" -> "Not"
      [] s = "true" -> "True"
      [] s = "false" -> "False"
      [] OTHER -> None

----------------------------------------------------------------------------
(* Lexer                                                                   *)

Lower == {"a","b","c","d","e","f","g","h","i","j","k","l","m",
          "n","o","p","q","r","s","t","u","v","w","x","y","z"}
Upper == {"A","B","C","D","E","F","G","H","I","J","K","L","M",
          "N","O","P","Q","R","S","T","U","V","W","X","Y","Z"}
Digits == {"0","1","2","3","4","5","6","7","8","9"}

\* current_char when the lexer is at byte offset p (None at end of input)
current_char(src, p) == IF p < Len(src) THEN src[p + 1] ELSE NoChar

\* Lexer::peek: the character after the current one
peek_char(src, p) == current_char(src, p + 1)

\* &source[a..b] as a string
RECURSIVE slice(_, _, _)
slice(src, a, b) == IF a >= b THEN "" ELSE src[a + 1] \o slice(src, a + 1, b)

\* source[a..b].contains(c)
contains(src, a, b, c) == \E i \in (a + 1)..b : src[i] = c

\* the inner loop of a line comment: up to, not including, the newline
RECURSIVE skip_line_comment(_, _)
skip_line_comment(src, p) ==
    IF current_char(src, p) # NoChar /\ current_char(src, p) # "\n"
    THEN skip_line_comment(src, p + 1)
    ELSE p

\* the inner loop of a block comment: through the first "*/", or to the end
RECURSIVE skip_block_comment(_, _)
skip_block_comment(src, p) ==
    IF current_char(src, p) = NoChar THEN p
    ELSE IF current_char(src, p) = "*" /\ peek_char(src, p) = "/" THEN p + 2
    ELSE skip_block_comment(src, p + 1)

RECURSIVE skip_whitespace_and_comments(_, _)
skip_whitespace_and_comments(src, p) ==
    LET ch == current_char(src, p) IN
    IF ch \in {" ", "\t", "\r", "\n"}
    THEN skip_whitespace_and_comments(src, p + 1)
    ELSE IF ch = "/" /\ peek_char(src, p) = "/"
    THEN skip_whitespace_and_comments(src, skip_line_comment(src, p + 2))
    ELSE IF ch = "/" /\ peek_char(src, p) = "*"
    THEN skip_whitespace_and_comments(src, skip_block_comment(src, p + 2))
    ELSE p

is_alphanumeric(ch) == ch \in Lower \cup Upper \cup Digits

\* A lexing routine returns the token kind, its payload, the position after
\* it, and the error kind (None when it succeeded) with the error span end.
Lexed(kind, text, p) == [kind |-> kind, text |-> text, pos |-> p, err |-> None]
LexErr(ekind, p) == [kind |-> "Error", text |-> "", pos |-> p, err |-> ekind]

RECURSIVE ident_end(_, _)
ident_end(src, p) ==
    IF is_alphanumeric(current_char(src, p)) \/ current_char(src, p) = "_"
    THEN ident_end(src, p + 1)
    ELSE p

lex_identifier(src, start) ==
    LET end == ident_end(src, start)
        ident == slice(src, start, end)
    IN IF from_keyword(ident) # None
       THEN Lexed(from_keyword(ident), "", end)
       ELSE Lexed("Ident", ident, end)

RECURSIVE digits_end(_, _)
digits_end(src, p) ==
    IF current_char(src, p) \in Digits THEN digits_end(src, p + 1) ELSE p

\* str::parse::<i64> fails exactly when the decimal value exceeds i64::MAX
RECURSIVE strip_zeros(_, _, _)
strip_zeros(src, a, b) ==
    IF a < b /\ src[a + 1] = "0" THEN strip_zeros(src, a + 1, b) ELSE a

DigitValue(d) ==
    CASE d = "0" -> 0 [] d = "1" -> 1 [] d = "2" -> 2 [] d = "3" -> 3 [] d = "4" -> 4
      [] d = "5" -> 5 [] d = "6" -> 6 [] d = "7" -> 7 [] d = "8" -> 8 [] d = "9" -> 9

I64MaxDigits == <<9,2,2,3,3,7,2,0,3,6,8,5,4,7,7,5,8,0,7>>

RECURSIVE digits_exceed(_, _, _)
digits_exceed(src, a, k) ==
    IF k > Len(I64MaxDigits) THEN FALSE
    ELSE IF DigitValue(src[a + k]) > I64MaxDigits[k] THEN TRUE
    ELSE IF DigitValue(src[a + k]) < I64MaxDigits[k] THEN FALSE
    ELSE digits_exceed(src, a, k + 1)

i64_overflows(src, a, b) ==
    LET z == strip_zeros(src, a, b) IN
    \/ b - z > Len(I64MaxDigits)
    \/ b - z = Len(I64MaxDigits) /\ digits_exceed(src, z, 1)

lex_number(src, start) ==
    LET int_end == digits_end(src, start) IN
    IF current_char(src, int_end) = "." /\ peek_char(src, int_end) \in Digits
    THEN LET end == digits_end(src, int_end + 1)
         IN Lexed("Float", slice(src, start, end), end)
    ELSE IF i64_overflows(src, start, int_end)
         THEN LexErr("InvalidNumber", int_end)
         ELSE Lexed("Integer", slice(src, start, int_end), int_end)

\* the loop of lex_string, from the character after the opening quote
RECURSIVE string_body(_, _, _)
string_body(src, p, acc) ==
    LET ch == current_char(src, p)
        esc == current_char(src, p + 1)
    IN IF ch = NoChar THEN LexErr("UnterminatedString", p)
       ELSE IF ch = "\"" THEN Lexed("String", acc, p + 1)
       ELSE IF ch = "\\"
       THEN IF esc = "n" THEN string_body(src, p + 2, acc \o "\n")
            ELSE IF esc = "t" THEN string_body(src, p + 2, acc \o "\t")
            ELSE IF esc = "r" THEN string_body(src, p + 2, acc \o "\r")
            ELSE IF esc = "\\" THEN string_body(src, p + 2, acc \o "\\")
            ELSE IF esc = "\"" THEN string_body(src, p + 2, acc \o "\"")
            ELSE IF esc = "{" THEN string_body(src, p + 2, acc \o "{")
            ELSE LexErr("InvalidChar", p + 1)
       ELSE IF ch \in {"\n", "\r"} THEN LexErr("UnterminatedString", p)
       ELSE string_body(src, p + 1, acc \o ch)

lex_string(src, start) == string_body(src, start + 1, "")

lex_char(src, start) ==
    LET c1 == current_char(src, start + 1)
        esc == current_char(src, start + 2)
        escaped == c1 = "\\"
        value == IF ~escaped THEN c1
                 ELSE IF esc = "n" THEN "\n"
                 ELSE IF esc = "t" THEN "\t"
                 ELSE IF esc = "r" THEN "\r"
                 ELSE esc
        \* position of the character that is taken as the literal's value
        at == IF escaped THEN start + 2 ELSE start + 1
    IN IF escaped /\ esc \notin {"n", "t", "r", "\\", "'"}
       THEN LexErr("InvalidChar", start + 2)
       ELSE IF c1 = NoChar THEN LexErr("UnterminatedChar", start + 1)
       ELSE IF current_char(src, at + 1) # "'" THEN LexErr("UnterminatedChar", at + 1)
       ELSE Lexed("Char", value, at + 2)

simple_token(kind, start) == Lexed(kind, "", start + 1)

\* the operator routines: advance, then match_char on the following character
lex_plus(src, start) ==
    IF current_char(src, start + 1) = "=" THEN Lexed("PlusEqual", "", start + 2)
    ELSE Lexed("Plus", "", start + 1)

lex_minus(src, start) ==
    IF current_char(src, start + 1) = "=" THEN Lexed("MinusEqual", "", start + 2)
    ELSE IF current_char(src, start + 1) = ">" THEN Lexed("Arrow", "", start + 2)
    ELSE Lexed("Minus", "", start + 1)

lex_star(src, start) ==
    IF current_char(src, start + 1) = "=" THEN Lexed("StarEqual", "", start + 2)
    ELSE Lexed("Star", "", start + 1)

lex_slash(src, start) ==
    IF current_char(src, start + 1) = "=" THEN Lexed("SlashEqual", "", start + 2)
    ELSE Lexed("Slash", "", start + 1)

lex_equal(src, start) ==
    IF current_char(src, start + 1) = "=" THEN Lexed("EqualEqual", "", start + 2)
    ELSE IF current_char(src, start + 1) = ">" THEN Lexed("FatArrow", "", start + 2)
    ELSE Lexed("Equal", "", start + 1)

lex_bang(src, start) ==
    IF current_char(src, start + 1) = "=" THEN Lexed("NotEqual", "", start + 2)
    ELSE Lexed("Bang", "", start + 1)

lex_less(src, start) ==
    IF current_char(src, start + 1) = "=" THEN Lexed("LessEqual", "", start + 2)
    ELSE IF current_char(src, start + 1) = "<" THEN Lexed("LessLess", "", start + 2)
    ELSE Lexed("Less", "", start + 1)

lex_greater(src, start) ==
    IF current_char(src, start + 1) = "=" THEN Lexed("GreaterEqual", "", start + 2)
    ELSE IF current_char(src, start + 1) = ">" THEN Lexed("GreaterGreater", "", start + 2)
    ELSE Lexed("Greater", "", start + 1)

lex_amp(src, start) ==
    IF current_char(src, start + 1) = "&" THEN Lexed("AmpAmp", "", start + 2)
    ELSE Lexed("Amp", "", start + 1)

lex_pipe(src, start) ==
    IF current_char(src, start + 1) = "|" THEN Lexed("PipePipe", "", start + 2)
    ELSE Lexed("Pipe", "", start + 1)

lex_dot(src, start) ==
    IF current_char(src, start + 1) = "."
    THEN IF current_char(src, start + 2) = "=" THEN Lexed("DotDotEqual", "", start + 3)
         ELSE Lexed("DotDot", "", start + 2)
    ELSE Lexed("Dot", "", start + 1)

lex_colon(src, start) ==
    IF current_char(src, start + 1) = ":" THEN Lexed("ColonColon", "", start + 2)
    ELSE Lexed("Colon", "", start + 1)

\* the dispatch on the first character of a real token
lex_token(src, start) ==
    LET ch == current_char(src, start) IN
    CASE ch \in Lower \cup Upper \cup {"_"} -> lex_identifier(src, start)
      [] ch \in Digits -> lex_number(src, start)
      [] ch = "\"" -> lex_string(src, start)
      [] ch = "'" -> lex_char(src, start)
      [] ch = "+" -> lex_plus(src, start)
      [] ch = "-" -> lex_minus(src, start)
      [] ch = "*" -> lex_star(src, start)
      [] ch = "/" -> lex_slash(src, start)
      [] ch = "%" -> simple_token("Percent", start)
      [] ch = "=" -> lex_equal(src, start)
      [] ch = "!" -> lex_bang(src, start)
      [] ch = "<" -> lex_less(src, start)
      [] ch = ">" -> lex_greater(src, start)
      [] ch = "&" -> lex_amp(src, start)
      [] ch = "|" -> lex_pipe(src, start)
      [] ch = "^" -> simple_token("Caret", start)
      [] ch = "~" -> simple_token("Tilde", start)
      [] ch = "." -> lex_dot(src, start)
      [] ch = ":" -> lex_colon(src, start)
      [] ch = "?" -> simple_token("Question", start)
      [] ch = "(" -> simple_token("LeftParen", start)
      [] ch = ")" -> simple_token("RightParen", start)
      [] ch = "{" -> simple_token("LeftBrace", start)
      [] ch = "}" -> simple_token("RightBrace", start)
      [] ch = "[" -> simple_token("LeftBracket", start)
      [] ch = "]" -> simple_token("RightBracket", start)
      [] ch = "," -> simple_token("Comma", start)
      [] ch = ";" -> simple_token("Semicolon", start)
      [] OTHER -> LexErr("UnexpectedCharacter", start + 1)

\* A variant that leaves the closing brace out of the statement enders.
last_token_can_end_statement_no_brace(last) ==
    last \in {"Ident", "Integer", "Float", "String", "Char", "True", "False",
              "Return", "Break", "Continue",
              "RightParen", "RightBracket"}

last_token_can_end_statement(last) ==
    last \in {"Ident", "Integer", "Float", "String", "Char", "True", "False",
              "Return", "Break", "Continue",
              "RightParen", "RightBracket", "RightBrace"}

\* A variant that never inserts a terminator before a token.
should_insert_semicolon_before_never(last, next_char) == FALSE

should_insert_semicolon_before(last, next_char) == last_token_can_end_statement(last)

\* A variant that inserts at end of input only after an identifier.
should_insert_semicolon_before_eof_ident_only(last) == last = "Ident"

should_insert_semicolon_before_eof(last) == last_token_can_end_statement(last)

----------------------------------------------------------------------------
(* Parser: helpers                                                         *)
(*                                                                         *)
(* Parser.pos is the 0-based index of the next token.  Every parsing       *)
(* routine takes the token vector and pos and returns a result with the    *)
(* new pos and the tree node, or the error (Result<T>).  Option<T> is a    *)
(* sequence of length 0 or 1.                                              *)

NoneOpt == <<>>
Some(x) == <<x>>

Nil == [kind |-> "Nil"]

POk(pos, node) == [ok |-> TRUE, pos |-> pos, node |-> node, err |-> NoError]

peek(toks, pos) == toks[pos + 1]

advance(toks, pos) == IF peek(toks, pos).kind # "Eof" THEN pos + 1 ELSE pos

is_at_end(toks, pos) == peek(toks, pos).kind = "Eof"

UnexpectedToken(toks, pos) ==
    [ok |-> FALSE, pos |-> pos, node |-> Nil,
     err |-> Error("UnexpectedToken", peek(toks, pos).span)]

\* eat: the position after an optional token of that kind
eat(toks, pos, kind) == IF peek(toks, pos).kind = kind THEN advance(toks, pos) ELSE pos

\* whether eat consumes
eats(toks, pos, kind) == peek(toks, pos).kind = kind

expect(toks, pos, kind) ==
    IF peek(toks, pos).kind = kind
    THEN POk(advance(toks, pos), peek(toks, pos))
    ELSE UnexpectedToken(toks, pos)

Spanned(value, span) == [value |-> value, span |-> span]

expect_ident(toks, pos) ==
    IF peek(toks, pos).kind = "Ident"
    THEN POk(advance(toks, pos), Spanned(peek(toks, pos).text, peek(toks, pos).span))
    ELSE UnexpectedToken(toks, pos)

----------------------------------------------------------------------------
(* Binary operators (ast.rs)                                               *)

precedence(op) ==
    CASE op \in {"Assign", "AddAssign", "SubAssign", "MulAssign", "DivAssign", "RemAssign"} -> 1
      [] op = "Or" -> 2
      [] op = "And" -> 3
      [] op \in {"Eq", "Ne", "Lt", "Le", "Gt", "Ge"} -> 4
      [] op = "BitOr" -> 5
      [] op = "BitXor" -> 6
      [] op = "BitAnd" -> 7
      [] op \in {"Shl", "Shr"} -> 8
      [] op \in {"Add", "Sub"} -> 9
      [] op \in {"Mul", "Div", "Rem"} -> 10

is_left_associative(op) ==
    op \notin {"Assign", "AddAssign", "SubAssign", "MulAssign", "DivAssign", "RemAssign"}

\* peek_binop: the operator of the current token, or None
peek_binop(toks, pos) ==
    LET k == peek(toks, pos).kind IN
    CASE k = "Plus" -> "Add"
      [] k = "Minus" -> "Sub"
      [] k = "Star" -> "Mul"
      [] k = "Slash" -> "Div"
      [] k = "Percent" -> "Rem"
      [] k = "EqualEqual" -> "Eq"
      [] k = "NotEqual" -> "Ne"
      [] k = "Less" -> "Lt"
      [] k = "LessEqual" -> "Le"
      [] k = "Greater" -> "Gt"
      [] k = "GreaterEqual" -> "Ge"
      [] k \in {"And", "AmpAmp"} -> "And"
      [] k \in {"Or", "PipePipe"} -> "Or"
      [] k = "Amp" -> "BitAnd"
      [] k = "Pipe" -> "BitOr"
      [] k = "Caret" -> "BitXor"
      [] k = "LessLess" -> "Shl"
      [] k = "GreaterGreater" -> "Shr"
      [] k = "Equal" -> "Assign"
      [] k = "PlusEqual" -> "AddAssign"
      [] k = "MinusEqual" -> "SubAssign"
      [] k = "StarEqual" -> "MulAssign"
      [] k = "SlashEqual" -> "DivAssign"
      [] OTHER -> None

----------------------------------------------------------------------------
(* Parser: types and parameter lists                                       *)
\* Every call of one Parser method by another goes through Parser(method, args),
\* defined after the last method.
RECURSIVE Parser(_, _)

\* loop { types.push(parse_type()?); if !eat(Comma) { break } }
type_list_loop(toks, pos, acc) ==
    LET t == Parser("parse_type", <<toks, pos>>) IN
    IF ~t.ok THEN t
    ELSE IF eats(toks, t.pos, "Comma")
         THEN Parser("type_list_loop", <<toks, eat(toks, t.pos, "Comma"), Append(acc, t.node)>>)
         ELSE POk(t.pos, Append(acc, t.node))

\* "(" already consumed: the optional type list, then ")"
paren_type_list(toks, pos) ==
    LET lst == IF peek(toks, pos).kind # "RightParen"
               THEN Parser("type_list_loop", <<toks, pos, <<>>>>)
               ELSE POk(pos, <<>>)
    IN IF ~lst.ok THEN lst
       ELSE LET close == expect(toks, lst.pos, "RightParen")
            IN IF ~close.ok THEN close ELSE POk(close.pos, lst.node)

parse_type(toks, pos) ==
    LET k == peek(toks, pos).kind IN
    CASE k = "Amp" ->
           LET inner == Parser("parse_type", <<toks, advance(toks, pos)>>)
           IN IF ~inner.ok THEN inner
              ELSE POk(inner.pos, [type |-> "Ref", inner |-> inner.node])
      [] k = "Own" ->
           LET inner == Parser("parse_type", <<toks, advance(toks, pos)>>)
           IN IF ~inner.ok THEN inner
              ELSE POk(inner.pos, [type |-> "Own", inner |-> inner.node])
      [] k = "LeftParen" ->
           LET lst == Parser("paren_type_list", <<toks, advance(toks, pos)>>)
           IN IF ~lst.ok THEN lst
              ELSE POk(lst.pos, [type |-> "Tuple", types |-> lst.node])
      [] k = "LeftBracket" ->
           LET elem == Parser("parse_type", <<toks, advance(toks, pos)>>)
               semi == eats(toks, elem.pos, "Semicolon")
               p1 == eat(toks, elem.pos, "Semicolon")
               sized == semi /\ peek(toks, p1).kind = "Integer"
               size == IF sized THEN Some(peek(toks, p1).text) ELSE NoneOpt
               p2 == IF sized THEN advance(toks, p1) ELSE p1
               close == expect(toks, p2, "RightBracket")
           IN IF ~elem.ok THEN elem
              ELSE IF ~close.ok THEN close
              ELSE POk(close.pos, [type |-> "Array", elem |-> elem.node, size |-> size])
      [] k = "Ident" ->
           LET name == expect_ident(toks, pos)
           IN POk(name.pos, [type |-> "Simple", name |-> name.node])
      [] OTHER -> UnexpectedToken(toks, pos)

\* loop { name: type; if !eat(Comma) { break } }
param_loop(toks, pos, acc) ==
    LET name == expect_ident(toks, pos)
        colon == expect(toks, name.pos, "Colon")
        ty == Parser("parse_type", <<toks, colon.pos>>)
        param == [name |-> name.node, ty |-> ty.node]
    IN IF ~name.ok THEN name
       ELSE IF ~colon.ok THEN colon
       ELSE IF ~ty.ok THEN ty
       ELSE IF eats(toks, ty.pos, "Comma")
            THEN Parser("param_loop", <<toks, eat(toks, ty.pos, "Comma"), Append(acc, param)>>)
            ELSE POk(ty.pos, Append(acc, param))

parse_param_list(toks, pos) ==
    IF peek(toks, pos).kind = "RightParen" THEN POk(pos, <<>>)
    ELSE Parser("param_loop", <<toks, pos, <<>>>>)

\* "(" params ")" ("->" type)?  shared by functions and trait methods
parse_signature(toks, pos) ==
    LET open == expect(toks, pos, "LeftParen")
        params == Parser("parse_param_list", <<toks, open.pos>>)
        close == expect(toks, params.pos, "RightParen")
        arrow == eats(toks, close.pos, "Arrow")
        ret == IF arrow THEN Parser("parse_type", <<toks, eat(toks, close.pos, "Arrow")>>)
               ELSE POk(close.pos, Nil)
    IN IF ~open.ok THEN open
       ELSE IF ~params.ok THEN params
       ELSE IF ~close.ok THEN close
       ELSE IF ~ret.ok THEN ret
       ELSE POk(ret.pos, [params |-> params.node,
                          return_type |-> IF arrow THEN Some(ret.node) ELSE NoneOpt])

----------------------------------------------------------------------------
(* Parser: blocks and statements                                           *)

Block(stmts, expr, span) == [stmts |-> stmts, expr |-> expr, span |-> span]

parse_expr(toks, pos) == Parser("parse_binary_expr", <<toks, pos, 0>>)

\* the while loop of parse_block; the node is the (stmts, trailing expr) pair
block_loop(toks, pos, stmts) ==
    IF peek(toks, pos).kind = "RightBrace"
    THEN POk(pos, [stmts |-> stmts, expr |-> NoneOpt])
    ELSE LET saved_pos == pos
             st == Parser("try_parse_stmt", <<toks, pos>>)
             trailing == Parser("parse_expr", <<toks, saved_pos>>)
         IN IF ~st.ok THEN st
            ELSE IF st.node # NoneOpt
            THEN Parser("block_loop", <<toks, st.pos, Append(stmts, st.node[1])>>)
            ELSE IF ~trailing.ok THEN trailing
            ELSE POk(trailing.pos, [stmts |-> stmts, expr |-> Some(trailing.node)])

parse_block(toks, pos) ==
    LET open == expect(toks, pos, "LeftBrace")
        body == Parser("block_loop", <<toks, open.pos, <<>>>>)
        close == expect(toks, body.pos, "RightBrace")
    IN IF ~open.ok THEN open
       ELSE IF ~body.ok THEN body
       ELSE IF ~close.ok THEN close
       ELSE POk(close.pos, Block(body.node.stmts, body.node.expr,
                                 Span(open.node.span.start, close.node.span.end)))

\* Result<Option<Stmt>>: the node is Some(stmt), or NoneOpt for "an expression"
try_parse_stmt(toks, pos) ==
    LET k == peek(toks, pos).kind IN
    CASE k = "Let" ->
           LET p0 == advance(toks, pos)
               mutable == eats(toks, p0, "Mut")
               name == expect_ident(toks, eat(toks, p0, "Mut"))
               typed == eats(toks, name.pos, "Colon")
               ty == IF typed THEN Parser("parse_type", <<toks, eat(toks, name.pos, "Colon")>>)
                     ELSE POk(name.pos, Nil)
               valued == eats(toks, ty.pos, "Equal")
               value == IF valued THEN Parser("parse_expr", <<toks, eat(toks, ty.pos, "Equal")>>)
                        ELSE POk(ty.pos, Nil)
               semi == expect(toks, value.pos, "Semicolon")
           IN IF ~name.ok THEN name
              ELSE IF ~ty.ok THEN ty
              ELSE IF ~value.ok THEN value
              ELSE IF ~semi.ok THEN semi
              ELSE POk(semi.pos, Some([stmt |-> "Let", name |-> name.node,
                                       ty |-> IF typed THEN Some(ty.node) ELSE NoneOpt,
                                       value |-> IF valued THEN Some(value.node) ELSE NoneOpt,
                                       mutable |-> mutable]))
      [] k = "Return" ->
           LET p0 == advance(toks, pos)
               valued == peek(toks, p0).kind # "Semicolon"
               value == IF valued THEN Parser("parse_expr", <<toks, p0>>) ELSE POk(p0, Nil)
               semi == expect(toks, value.pos, "Semicolon")
           IN IF ~value.ok THEN value
              ELSE IF ~semi.ok THEN semi
              ELSE POk(semi.pos, Some([stmt |-> "Return",
                                       value |-> IF valued THEN Some(value.node) ELSE NoneOpt]))
      [] k = "Break" ->
           LET semi == expect(toks, advance(toks, pos), "Semicolon")
           IN IF ~semi.ok THEN semi ELSE POk(semi.pos, Some([stmt |-> "Break"]))
      [] k = "Continue" ->
           LET semi == expect(toks, advance(toks, pos), "Semicolon")
           IN IF ~semi.ok THEN semi ELSE POk(semi.pos, Some([stmt |-> "Continue"]))
      [] k = "While" ->
           LET condition == Parser("parse_expr", <<toks, advance(toks, pos)>>)
               body == Parser("parse_block", <<toks, condition.pos>>)
           IN IF ~condition.ok THEN condition
              ELSE IF ~body.ok THEN body
              ELSE POk(body.pos, Some([stmt |-> "While", condition |-> condition.node,
                                       body |-> body.node]))
      [] k = "For" ->
           LET var == expect_ident(toks, advance(toks, pos))
               in == expect(toks, var.pos, "In")
               iter == Parser("parse_expr", <<toks, in.pos>>)
               body == Parser("parse_block", <<toks, iter.pos>>)
           IN IF ~var.ok THEN var
              ELSE IF ~in.ok THEN in
              ELSE IF ~iter.ok THEN iter
              ELSE IF ~body.ok THEN body
              ELSE POk(body.pos, Some([stmt |-> "For", var |-> var.node,
                                       iter |-> iter.node, body |-> body.node]))
      [] k = "Loop" ->
           LET body == Parser("parse_block", <<toks, advance(toks, pos)>>)
           IN IF ~body.ok THEN body
              ELSE POk(body.pos, Some([stmt |-> "Loop", body |-> body.node]))
      [] OTHER ->
           LET starts_with_control == k \in {"If", "Match", "LeftBrace"}
               expr == Parser("parse_expr", <<toks, pos>>)
           IN IF ~expr.ok THEN expr
              ELSE IF starts_with_control
              THEN POk(expr.pos, Some([stmt |-> "Expr", expr |-> expr.node]))
              ELSE IF eats(toks, expr.pos, "Semicolon")
              THEN POk(eat(toks, expr.pos, "Semicolon"),
                       Some([stmt |-> "Expr", expr |-> expr.node]))
              ELSE POk(expr.pos, NoneOpt)

----------------------------------------------------------------------------
(* Parser: expressions                                                     *)

\* the loop of parse_binary_expr, with the left operand parsed so far
binary_loop(toks, pos, left, min_prec) ==
    LET k == peek(toks, pos).kind
        op == peek_binop(toks, pos)
    IN IF k \in {"DotDot", "DotDotEqual"}
       THEN LET p0 == advance(toks, pos)
                open == peek(toks, p0).kind \in
                            {"RightBrace", "Semicolon", "RightParen", "Comma"}
                end == IF open THEN POk(p0, Nil) ELSE Parser("parse_unary_expr", <<toks, p0>>)
                span == Span(left.span.start,
                             IF open THEN left.span.end ELSE end.node.span.end)
            IN IF ~end.ok THEN end
               ELSE Parser("binary_loop", <<toks, end.pos,
                        [kind |-> "Range", span |-> span, start |-> Some(left),
                         end |-> IF open THEN NoneOpt ELSE Some(end.node),
                         inclusive |-> (k = "DotDotEqual")],
                        min_prec>>)
       ELSE IF op # None /\ precedence(op) >= min_prec
       THEN LET next_min_prec == IF is_left_associative(op) THEN precedence(op) + 1
                                 ELSE precedence(op)
                right == Parser("parse_binary_expr", <<toks, advance(toks, pos), next_min_prec>>)
            IN IF ~right.ok THEN right
               ELSE Parser("binary_loop", <<toks, right.pos,
                        [kind |-> "Binary", span |-> Span(left.span.start, right.node.span.end),
                         op |-> op, left |-> left, right |-> right.node],
                        min_prec>>)
       ELSE POk(pos, left)

parse_binary_expr(toks, pos, min_prec) ==
    LET left == Parser("parse_unary_expr", <<toks, pos>>) IN
    IF ~left.ok THEN left ELSE Parser("binary_loop", <<toks, left.pos, left.node, min_prec>>)

parse_unary_expr(toks, pos) ==
    LET k == peek(toks, pos).kind
        start == peek(toks, pos).span
        expr == Parser("parse_unary_expr", <<toks, advance(toks, pos)>>)
        op == CASE k = "Minus" -> "Neg"
                [] k \in {"Not", "Bang"} -> "Not"
                [] k = "Tilde" -> "BitNot"
                [] OTHER -> None
    IN IF op = None THEN Parser("parse_postfix_expr", <<toks, pos>>)
       ELSE IF ~expr.ok THEN expr
       ELSE POk(expr.pos, [kind |-> "Unary", span |-> Span(start.start, expr.node.span.end),
                           op |-> op, expr |-> expr.node])

\* loop { exprs.push(parse_expr()?); if !eat(Comma) { break } }
expr_list_loop(toks, pos, acc) ==
    LET e == Parser("parse_expr", <<toks, pos>>) IN
    IF ~e.ok THEN e
    ELSE IF eats(toks, e.pos, "Comma")
         THEN Parser("expr_list_loop", <<toks, eat(toks, e.pos, "Comma"), Append(acc, e.node)>>)
         ELSE POk(e.pos, Append(acc, e.node))

parse_expr_list(toks, pos) ==
    IF peek(toks, pos).kind \in {"RightParen", "RightBracket"} THEN POk(pos, <<>>)
    ELSE Parser("expr_list_loop", <<toks, pos, <<>>>>)

\* the loop of parse_postfix_expr, with the expression parsed so far
postfix_loop(toks, pos, expr) ==
    LET k == peek(toks, pos).kind IN
    CASE k = "LeftParen" ->
           LET args == Parser("parse_expr_list", <<toks, advance(toks, pos)>>)
               close == expect(toks, args.pos, "RightParen")
           IN IF ~args.ok THEN args
              ELSE IF ~close.ok THEN close
              ELSE Parser("postfix_loop", <<toks, close.pos,
                       [kind |-> "Call", span |-> Span(expr.span.start, close.node.span.end),
                        func |-> expr, args |-> args.node]>>)
      [] k = "LeftBracket" ->
           LET index == Parser("parse_expr", <<toks, advance(toks, pos)>>)
               close == expect(toks, index.pos, "RightBracket")
           IN IF ~index.ok THEN index
              ELSE IF ~close.ok THEN close
              ELSE Parser("postfix_loop", <<toks, close.pos,
                       [kind |-> "Index", span |-> Span(expr.span.start, close.node.span.end),
                        expr |-> expr, index |-> index.node]>>)
      [] k = "Dot" ->
           LET field == expect_ident(toks, advance(toks, pos))
               call == peek(toks, field.pos).kind = "LeftParen"
               args == Parser("parse_expr_list", <<toks, advance(toks, field.pos)>>)
               close == expect(toks, args.pos, "RightParen")
           IN IF ~field.ok THEN field
              ELSE IF ~call
              THEN Parser("postfix_loop", <<toks, field.pos,
                       [kind |-> "Field", span |-> Span(expr.span.start, field.node.span.end),
                        expr |-> expr, field |-> field.node]>>)
              ELSE IF ~args.ok THEN args
              ELSE IF ~close.ok THEN close
              ELSE Parser("postfix_loop", <<toks, close.pos,
                       [kind |-> "MethodCall",
                        span |-> Span(expr.span.start, close.node.span.end),
                        receiver |-> expr, method |-> field.node, args |-> args.node]>>)
      [] k = "Question" ->
           Parser("postfix_loop", <<toks, advance(toks, pos),
               [kind |-> "Try", span |-> Span(expr.span.start, peek(toks, pos).span.end),
                expr |-> expr]>>)
      [] k = "As" ->
           LET ty == Parser("parse_type", <<toks, advance(toks, pos)>>)
           IN IF ~ty.ok THEN ty
              ELSE Parser("postfix_loop", <<toks, ty.pos,
                       [kind |-> "Cast", span |-> expr.span, expr |-> expr, ty |-> ty.node]>>)
      [] k = "Is" ->
           LET ty == Parser("parse_type", <<toks, advance(toks, pos)>>)
           IN IF ~ty.ok THEN ty
              ELSE Parser("postfix_loop", <<toks, ty.pos,
                       [kind |-> "Is", span |-> expr.span, expr |-> expr, ty |-> ty.node]>>)
      [] OTHER -> POk(pos, expr)

parse_postfix_expr(toks, pos) ==
    LET primary == Parser("parse_primary_expr", <<toks, pos>>) IN
    IF ~primary.ok THEN primary ELSE Parser("postfix_loop", <<toks, primary.pos, primary.node>>)

\* loop { name: expr; if !eat(Comma) { break } }
struct_lit_loop(toks, pos, acc) ==
    LET name == expect_ident(toks, pos)
        colon == expect(toks, name.pos, "Colon")
        value == Parser("parse_expr", <<toks, colon.pos>>)
        field == [name |-> name.node, value |-> value.node]
    IN IF ~name.ok THEN name
       ELSE IF ~colon.ok THEN colon
       ELSE IF ~value.ok THEN value
       ELSE IF eats(toks, value.pos, "Comma")
            THEN Parser("struct_lit_loop", <<toks, eat(toks, value.pos, "Comma"), Append(acc, field)>>)
            ELSE POk(value.pos, Append(acc, field))

parse_struct_lit_fields(toks, pos) ==
    IF peek(toks, pos).kind = "RightBrace" THEN POk(pos, <<>>)
    ELSE Parser("struct_lit_loop", <<toks, pos, <<>>>>)

\* loop { patterns.push(parse_pattern()?); if !eat(Comma) { break } }
pattern_list_loop(toks, pos, acc) ==
    LET pat == Parser("parse_pattern", <<toks, pos>>) IN
    IF ~pat.ok THEN pat
    ELSE IF eats(toks, pat.pos, "Comma")
         THEN Parser("pattern_list_loop", <<toks, eat(toks, pat.pos, "Comma"), Append(acc, pat.node)>>)
         ELSE POk(pat.pos, Append(acc, pat.node))

\* parse_pattern leaving the wildcard token where it is
parse_pattern_stuck(toks, pos) ==
    LET tok == peek(toks, pos)
        k == tok.kind
    IN
    CASE k = "Ident" /\ tok.text = "_" ->
           POk(pos, [pattern |-> "Wildcard"])
      [] k = "Ident" /\ tok.text # "_" ->
           LET ident == expect_ident(toks, pos)
               variant == peek(toks, ident.pos).kind = "LeftParen"
               p0 == advance(toks, ident.pos)
               patterns == IF peek(toks, p0).kind # "RightParen"
                           THEN Parser("pattern_list_loop", <<toks, p0, <<>>>>)
                           ELSE POk(p0, <<>>)
               close == expect(toks, patterns.pos, "RightParen")
           IN IF ~variant
              THEN POk(ident.pos, [pattern |-> "Ident", name |-> ident.node.value])
              ELSE IF ~patterns.ok THEN patterns
              ELSE IF ~close.ok THEN close
              ELSE POk(close.pos, [pattern |-> "Variant", name |-> ident.node.value,
                                   patterns |-> patterns.node])
      [] k = "Integer" ->
           POk(advance(toks, pos), [pattern |-> "Literal", lit |-> "Integer", value |-> tok.text])
      [] k = "String" ->
           POk(advance(toks, pos), [pattern |-> "Literal", lit |-> "String", value |-> tok.text])
      [] k = "True" ->
           POk(advance(toks, pos), [pattern |-> "Literal", lit |-> "Bool", value |-> "true"])
      [] k = "False" ->
           POk(advance(toks, pos), [pattern |-> "Literal", lit |-> "Bool", value |-> "false"])
      [] OTHER -> UnexpectedToken(toks, pos)

parse_pattern(toks, pos) ==
    LET tok == peek(toks, pos)
        k == tok.kind
    IN
    CASE k = "Ident" /\ tok.text = "_" ->
           POk(advance(toks, pos), [pattern |-> "Wildcard"])
      [] k = "Ident" /\ tok.text # "_" ->
           LET ident == expect_ident(toks, pos)
               variant == peek(toks, ident.pos).kind = "LeftParen"
               p0 == advance(toks, ident.pos)
               patterns == IF peek(toks, p0).kind # "RightParen"
                           THEN Parser("pattern_list_loop", <<toks, p0, <<>>>>)
                           ELSE POk(p0, <<>>)
               close == expect(toks, patterns.pos, "RightParen")
           IN IF ~variant
              THEN POk(ident.pos, [pattern |-> "Ident", name |-> ident.node.value])
              ELSE IF ~patterns.ok THEN patterns
              ELSE IF ~close.ok THEN close
              ELSE POk(close.pos, [pattern |-> "Variant", name |-> ident.node.value,
                                   patterns |-> patterns.node])
      [] k = "Integer" ->
           POk(advance(toks, pos), [pattern |-> "Literal", lit |-> "Integer", value |-> tok.text])
      [] k = "String" ->
           POk(advance(toks, pos), [pattern |-> "Literal", lit |-> "String", value |-> tok.text])
      [] k = "True" ->
           POk(advance(toks, pos), [pattern |-> "Literal", lit |-> "Bool", value |-> "true"])
      [] k = "False" ->
           POk(advance(toks, pos), [pattern |-> "Literal", lit |-> "Bool", value |-> "false"])
      [] OTHER -> UnexpectedToken(toks, pos)

\* the while loop over the arms of a match expression
match_arm_loop(toks, pos, arms) ==
    IF peek(toks, pos).kind = "RightBrace" THEN POk(pos, arms)
    ELSE LET pattern == Parser("parse_pattern", <<toks, pos>>)
             guarded == eats(toks, pattern.pos, "If")
             guard == IF guarded THEN Parser("parse_expr", <<toks, eat(toks, pattern.pos, "If")>>)
                      ELSE POk(pattern.pos, Nil)
             arrow == expect(toks, guard.pos, "FatArrow")
             body == Parser("parse_expr", <<toks, arrow.pos>>)
             arm == [pattern |-> pattern.node,
                     guard |-> IF guarded THEN Some(guard.node) ELSE NoneOpt,
                     body |-> body.node]
         IN IF ~pattern.ok THEN pattern
            ELSE IF ~guard.ok THEN guard
            ELSE IF ~arrow.ok THEN arrow
            ELSE IF ~body.ok THEN body
            ELSE IF eats(toks, body.pos, "Comma")
                 THEN Parser("match_arm_loop", <<toks, eat(toks, body.pos, "Comma"), Append(arms, arm)>>)
                 ELSE POk(body.pos, Append(arms, arm))

\* loop { name (: type)?; if !eat(Comma) { break } } of a lambda
lambda_param_loop(toks, pos, acc) ==
    LET name == expect_ident(toks, pos)
        typed == eats(toks, name.pos, "Colon")
        ty == IF typed THEN Parser("parse_type", <<toks, eat(toks, name.pos, "Colon")>>)
              ELSE POk(name.pos, [type |-> "Infer"])
        param == [name |-> name.node, ty |-> ty.node]
    IN IF ~name.ok THEN name
       ELSE IF ~ty.ok THEN ty
       ELSE IF eats(toks, ty.pos, "Comma")
            THEN Parser("lambda_param_loop", <<toks, eat(toks, ty.pos, "Comma"), Append(acc, param)>>)
            ELSE POk(ty.pos, Append(acc, param))

parse_primary_expr(toks, pos) ==
    LET tok == peek(toks, pos)
        k == tok.kind
    IN
    CASE k \in {"Integer", "Float", "String", "Char"} ->
           POk(advance(toks, pos), [kind |-> k, span |-> tok.span, value |-> tok.text])
      [] k = "True" ->
           POk(advance(toks, pos), [kind |-> "Bool", span |-> tok.span, value |-> "true"])
      [] k = "False" ->
           POk(advance(toks, pos), [kind |-> "Bool", span |-> tok.span, value |-> "false"])
      [] k = "Ident" ->
           LET ident == expect_ident(toks, pos)
               lit == peek(toks, ident.pos).kind = "LeftBrace"
               fields == Parser("parse_struct_lit_fields", <<toks, advance(toks, ident.pos)>>)
               close == expect(toks, fields.pos, "RightBrace")
           IN IF ~lit
              THEN POk(ident.pos, [kind |-> "Ident", span |-> ident.node.span,
                                   name |-> ident.node.value])
              ELSE IF ~fields.ok THEN fields
              ELSE IF ~close.ok THEN close
              ELSE POk(close.pos,
                       [kind |-> "StructLit",
                        span |-> Span(ident.node.span.start, close.node.span.end),
                        name |-> ident.node, fields |-> fields.node])
      [] k = "LeftParen" ->
           LET p0 == advance(toks, pos)
               first_expr == Parser("parse_expr", <<toks, p0>>)
               tuple == eats(toks, first_expr.pos, "Comma")
               p1 == eat(toks, first_expr.pos, "Comma")
               rest == IF peek(toks, p1).kind # "RightParen"
                       THEN Parser("expr_list_loop", <<toks, p1, <<first_expr.node>>>>)
                       ELSE POk(p1, <<first_expr.node>>)
               close == expect(toks, IF tuple THEN rest.pos ELSE first_expr.pos, "RightParen")
           IN IF peek(toks, p0).kind = "RightParen"
              THEN POk(advance(toks, p0),
                       [kind |-> "Tuple", span |-> Span(tok.span.start, peek(toks, p0).span.end),
                        elems |-> <<>>])
              ELSE IF ~first_expr.ok THEN first_expr
              ELSE IF tuple /\ ~rest.ok THEN rest
              ELSE IF ~close.ok THEN close
              ELSE IF tuple
              THEN POk(close.pos,
                       [kind |-> "Tuple", span |-> Span(tok.span.start, close.node.span.end),
                        elems |-> rest.node])
              ELSE POk(close.pos, first_expr.node)
      [] k = "LeftBracket" ->
           LET exprs == Parser("parse_expr_list", <<toks, advance(toks, pos)>>)
               close == expect(toks, exprs.pos, "RightBracket")
           IN IF ~exprs.ok THEN exprs
              ELSE IF ~close.ok THEN close
              ELSE POk(close.pos,
                       [kind |-> "Array", span |-> Span(tok.span.start, close.node.span.end),
                        elems |-> exprs.node])
      [] k = "LeftBrace" ->
           LET block == Parser("parse_block", <<toks, pos>>)
           IN IF ~block.ok THEN block
              ELSE POk(block.pos, [kind |-> "Block", span |-> block.node.span,
                                   block |-> block.node])
      [] k = "If" ->
           LET condition == Parser("parse_expr", <<toks, advance(toks, pos)>>)
               then_block == Parser("parse_block", <<toks, condition.pos>>)
               has_else == eats(toks, then_block.pos, "Else")
               else_block == IF has_else
                             THEN Parser("parse_block", <<toks, eat(toks, then_block.pos, "Else")>>)
                             ELSE POk(then_block.pos, Nil)
           IN IF ~condition.ok THEN condition
              ELSE IF ~then_block.ok THEN then_block
              ELSE IF ~else_block.ok THEN else_block
              ELSE POk(else_block.pos,
                       [kind |-> "If", span |-> then_block.node.span,
                        condition |-> condition.node, then_block |-> then_block.node,
                        else_block |-> IF has_else THEN Some(else_block.node) ELSE NoneOpt])
      [] k = "Match" ->
           LET expr == Parser("parse_expr", <<toks, advance(toks, pos)>>)
               open == expect(toks, expr.pos, "LeftBrace")
               arms == Parser("match_arm_loop", <<toks, open.pos, <<>>>>)
               close == expect(toks, arms.pos, "RightBrace")
           IN IF ~expr.ok THEN expr
              ELSE IF ~open.ok THEN open
              ELSE IF ~arms.ok THEN arms
              ELSE IF ~close.ok THEN close
              ELSE POk(close.pos, [kind |-> "Match", span |-> close.node.span,
                                   expr |-> expr.node, arms |-> arms.node])
      [] k = "Await" ->
           LET expr == Parser("parse_postfix_expr", <<toks, advance(toks, pos)>>)
           IN IF ~expr.ok THEN expr
              ELSE POk(expr.pos,
                       [kind |-> "Await", span |-> Span(tok.span.start, expr.node.span.end),
                        expr |-> expr.node])
      [] k = "Pipe" ->
           LET p0 == advance(toks, pos)
               params == IF peek(toks, p0).kind # "Pipe"
                         THEN Parser("lambda_param_loop", <<toks, p0, <<>>>>)
                         ELSE POk(p0, <<>>)
               close == expect(toks, params.pos, "Pipe")
               braced == peek(toks, close.pos).kind = "LeftBrace"
               block == Parser("parse_block", <<toks, close.pos>>)
               body == IF ~braced THEN Parser("parse_expr", <<toks, close.pos>>)
                       ELSE IF ~block.ok THEN block
                       ELSE POk(block.pos, [kind |-> "Block", span |-> block.node.span,
                                            block |-> block.node])
           IN IF ~params.ok THEN params
              ELSE IF ~close.ok THEN close
              ELSE IF ~body.ok THEN body
              ELSE POk(body.pos,
                       [kind |-> "Lambda", span |-> Span(tok.span.start, body.node.span.end),
                        params |-> params.node, body |-> body.node])
      [] OTHER -> UnexpectedToken(toks, pos)

----------------------------------------------------------------------------
(* Parser: items and the module                                            *)

parse_function(toks, pos, is_pub) ==
    LET is_async == eats(toks, pos, "Async")
        fn == expect(toks, eat(toks, pos, "Async"), "Fn")
        name == expect_ident(toks, fn.pos)
        sig == Parser("parse_signature", <<toks, name.pos>>)
        body == Parser("parse_block", <<toks, sig.pos>>)
    IN IF ~fn.ok THEN fn
       ELSE IF ~name.ok THEN name
       ELSE IF ~sig.ok THEN sig
       ELSE IF ~body.ok THEN body
       ELSE POk(body.pos, [item |-> "Function", name |-> name.node,
                           params |-> sig.node.params,
                           return_type |-> sig.node.return_type,
                           body |-> body.node, is_async |-> is_async, is_pub |-> is_pub])

\* while !RightBrace { pub? name: type; if !eat(Comma) { break } }
field_loop(toks, pos, acc, allow_pub) ==
    IF peek(toks, pos).kind = "RightBrace" THEN POk(pos, acc)
    ELSE LET field_is_pub == allow_pub /\ eats(toks, pos, "Pub")
             name == expect_ident(toks, IF allow_pub THEN eat(toks, pos, "Pub") ELSE pos)
             colon == expect(toks, name.pos, "Colon")
             ty == Parser("parse_type", <<toks, colon.pos>>)
             field == [name |-> name.node, ty |-> ty.node, is_pub |-> field_is_pub]
         IN IF ~name.ok THEN name
            ELSE IF ~colon.ok THEN colon
            ELSE IF ~ty.ok THEN ty
            ELSE IF eats(toks, ty.pos, "Comma")
                 THEN Parser("field_loop", <<toks, eat(toks, ty.pos, "Comma"), Append(acc, field), allow_pub>>)
                 ELSE POk(ty.pos, Append(acc, field))

parse_struct(toks, pos, is_pub) ==
    LET kw == expect(toks, pos, "Struct")
        name == expect_ident(toks, kw.pos)
        open == expect(toks, name.pos, "LeftBrace")
        fields == Parser("field_loop", <<toks, open.pos, <<>>, TRUE>>)
        close == expect(toks, fields.pos, "RightBrace")
    IN IF ~kw.ok THEN kw
       ELSE IF ~name.ok THEN name
       ELSE IF ~open.ok THEN open
       ELSE IF ~fields.ok THEN fields
       ELSE IF ~close.ok THEN close
       ELSE POk(close.pos, [item |-> "Struct", name |-> name.node,
                            fields |-> fields.node, is_pub |-> is_pub])

\* while !RightBrace { Name payload?; if !eat(Comma) { break } }
variant_loop(toks, pos, acc) ==
    IF peek(toks, pos).kind = "RightBrace" THEN POk(pos, acc)
    ELSE LET name == expect_ident(toks, pos)
             k == peek(toks, name.pos).kind
             types == Parser("paren_type_list", <<toks, advance(toks, name.pos)>>)
             fields == Parser("field_loop", <<toks, advance(toks, name.pos), <<>>, FALSE>>)
             close == expect(toks, fields.pos, "RightBrace")
             data == CASE k = "LeftParen" ->
                            IF ~types.ok THEN types
                            ELSE POk(types.pos, [data |-> "Tuple", types |-> types.node])
                       [] k = "LeftBrace" ->
                            IF ~fields.ok THEN fields
                            ELSE IF ~close.ok THEN close
                            ELSE POk(close.pos, [data |-> "Struct", fields |-> fields.node])
                       [] OTHER -> POk(name.pos, [data |-> "Unit"])
             variant == [name |-> name.node, data |-> data.node]
         IN IF ~name.ok THEN name
            ELSE IF ~data.ok THEN data
            ELSE IF eats(toks, data.pos, "Comma")
                 THEN Parser("variant_loop", <<toks, eat(toks, data.pos, "Comma"), Append(acc, variant)>>)
                 ELSE POk(data.pos, Append(acc, variant))

parse_enum(toks, pos, is_pub) ==
    LET kw == expect(toks, pos, "Enum")
        name == expect_ident(toks, kw.pos)
        open == expect(toks, name.pos, "LeftBrace")
        variants == Parser("variant_loop", <<toks, open.pos, <<>>>>)
        close == expect(toks, variants.pos, "RightBrace")
    IN IF ~kw.ok THEN kw
       ELSE IF ~name.ok THEN name
       ELSE IF ~open.ok THEN open
       ELSE IF ~variants.ok THEN variants
       ELSE IF ~close.ok THEN close
       ELSE POk(close.pos, [item |-> "Enum", name |-> name.node,
                            variants |-> variants.node, is_pub |-> is_pub])

\* while !RightBrace { fn name(params) (-> type)? ; }
trait_method_loop(toks, pos, acc) ==
    IF peek(toks, pos).kind = "RightBrace" THEN POk(pos, acc)
    ELSE LET fn == expect(toks, pos, "Fn")
             name == expect_ident(toks, fn.pos)
             sig == Parser("parse_signature", <<toks, name.pos>>)
             semi == expect(toks, sig.pos, "Semicolon")
             method == [name |-> name.node, params |-> sig.node.params,
                        return_type |-> sig.node.return_type]
         IN IF ~fn.ok THEN fn
            ELSE IF ~name.ok THEN name
            ELSE IF ~sig.ok THEN sig
            ELSE IF ~semi.ok THEN semi
            ELSE Parser("trait_method_loop", <<toks, semi.pos, Append(acc, method)>>)

parse_trait(toks, pos, is_pub) ==
    LET kw == expect(toks, pos, "Trait")
        name == expect_ident(toks, kw.pos)
        open == expect(toks, name.pos, "LeftBrace")
        methods == Parser("trait_method_loop", <<toks, open.pos, <<>>>>)
        close == expect(toks, methods.pos, "RightBrace")
    IN IF ~kw.ok THEN kw
       ELSE IF ~name.ok THEN name
       ELSE IF ~open.ok THEN open
       ELSE IF ~methods.ok THEN methods
       ELSE IF ~close.ok THEN close
       ELSE POk(close.pos, [item |-> "Trait", name |-> name.node,
                            methods |-> methods.node, is_pub |-> is_pub])

\* while !RightBrace { methods.push(parse_function(false)?) }
impl_method_loop(toks, pos, acc) ==
    IF peek(toks, pos).kind = "RightBrace" THEN POk(pos, acc)
    ELSE LET method == Parser("parse_function", <<toks, pos, FALSE>>)
         IN IF ~method.ok THEN method
            ELSE Parser("impl_method_loop", <<toks, method.pos, Append(acc, method.node)>>)

parse_impl(toks, pos) ==
    LET kw == expect(toks, pos, "Impl")
        first_name == expect_ident(toks, kw.pos)
        for_trait == eats(toks, first_name.pos, "For")
        type_name == IF for_trait
                     THEN expect_ident(toks, eat(toks, first_name.pos, "For"))
                     ELSE first_name
        open == expect(toks, type_name.pos, "LeftBrace")
        methods == Parser("impl_method_loop", <<toks, open.pos, <<>>>>)
        close == expect(toks, methods.pos, "RightBrace")
    IN IF ~kw.ok THEN kw
       ELSE IF ~first_name.ok THEN first_name
       ELSE IF ~type_name.ok THEN type_name
       ELSE IF ~open.ok THEN open
       ELSE IF ~methods.ok THEN methods
       ELSE IF ~close.ok THEN close
       ELSE POk(close.pos,
                [item |-> "Impl",
                 trait_name |-> IF for_trait THEN Some(first_name.node) ELSE NoneOpt,
                 type_name |-> type_name.node, methods |-> methods.node])

parse_type_alias(toks, pos, is_pub) ==
    LET kw == expect(toks, pos, "Type")
        name == expect_ident(toks, kw.pos)
        eq == expect(toks, name.pos, "Equal")
        ty == Parser("parse_type", <<toks, eq.pos>>)
        semi == expect(toks, ty.pos, "Semicolon")
    IN IF ~kw.ok THEN kw
       ELSE IF ~name.ok THEN name
       ELSE IF ~eq.ok THEN eq
       ELSE IF ~ty.ok THEN ty
       ELSE IF ~semi.ok THEN semi
       ELSE POk(semi.pos, [item |-> "TypeAlias", name |-> name.node, ty |-> ty.node,
                           is_pub |-> is_pub])

parse_const(toks, pos, is_pub) ==
    LET kw == expect(toks, pos, "Const")
        name == expect_ident(toks, kw.pos)
        colon == expect(toks, name.pos, "Colon")
        ty == Parser("parse_type", <<toks, colon.pos>>)
        eq == expect(toks, ty.pos, "Equal")
        value == Parser("parse_expr", <<toks, eq.pos>>)
        semi == expect(toks, value.pos, "Semicolon")
    IN IF ~kw.ok THEN kw
       ELSE IF ~name.ok THEN name
       ELSE IF ~colon.ok THEN colon
       ELSE IF ~ty.ok THEN ty
       ELSE IF ~eq.ok THEN eq
       ELSE IF ~value.ok THEN value
       ELSE IF ~semi.ok THEN semi
       ELSE POk(semi.pos, [item |-> "Const", name |-> name.node, ty |-> ty.node,
                           value |-> value.node, is_pub |-> is_pub])

\* loop { path.push(expect_ident()?); if !eat(ColonColon) { break } }
import_path_loop(toks, pos, acc) ==
    LET seg == expect_ident(toks, pos) IN
    IF ~seg.ok THEN seg
    ELSE IF eats(toks, seg.pos, "ColonColon")
         THEN Parser("import_path_loop", <<toks, eat(toks, seg.pos, "ColonColon"), Append(acc, seg.node)>>)
         ELSE POk(seg.pos, Append(acc, seg.node))

parse_import(toks, pos) ==
    LET kw == expect(toks, pos, "Import")
        path == Parser("import_path_loop", <<toks, kw.pos, <<>>>>)
        semi == expect(toks, path.pos, "Semicolon")
    IN IF ~kw.ok THEN kw
       ELSE IF ~path.ok THEN path
       ELSE IF ~semi.ok THEN semi
       ELSE POk(semi.pos, [item |-> "Import", path |-> path.node])

parse_item(toks, pos) ==
    LET is_pub == eats(toks, pos, "Pub")
        p0 == eat(toks, pos, "Pub")
        k == peek(toks, p0).kind
    IN
    CASE k = "Fn" -> Parser("parse_function", <<toks, p0, is_pub>>)
      [] k = "Struct" -> Parser("parse_struct", <<toks, p0, is_pub>>)
      [] k = "Enum" -> Parser("parse_enum", <<toks, p0, is_pub>>)
      [] k = "Trait" -> Parser("parse_trait", <<toks, p0, is_pub>>)
      [] k = "Impl" -> Parser("parse_impl", <<toks, p0>>)
      [] k = "Type" -> Parser("parse_type_alias", <<toks, p0, is_pub>>)
      [] k = "Const" -> Parser("parse_const", <<toks, p0, is_pub>>)
      [] k = "Import" -> Parser("parse_import", <<toks, p0>>)
      [] OTHER -> UnexpectedToken(toks, p0)

\* while !is_at_end() { items.push(parse_item()?) }
module_loop(toks, pos, items) ==
    IF is_at_end(toks, pos) THEN POk(pos, [items |-> items])
    ELSE LET item == Parser("parse_item", <<toks, pos>>)
         IN IF ~item.ok THEN item
            ELSE Parser("module_loop", <<toks, item.pos, Append(items, item.node)>>)

parse_module(toks) == Parser("module_loop", <<toks, 0, <<>>>>)

\* impl Parser: a call self.method(..) runs the method of that name on the
\* token vector and position.
Parser(method, args) ==
    CASE method = "type_list_loop" -> type_list_loop(args[1], args[2], args[3])
      [] method = "paren_type_list" -> paren_type_list(args[1], args[2])
      [] method = "parse_type" -> parse_type(args[1], args[2])
      [] method = "param_loop" -> param_loop(args[1], args[2], args[3])
      [] method = "parse_param_list" -> parse_param_list(args[1], args[2])
      [] method = "parse_signature" -> parse_signature(args[1], args[2])
      [] method = "parse_expr" -> parse_expr(args[1], args[2])
      [] method = "block_loop" -> block_loop(args[1], args[2], args[3])
      [] method = "parse_block" -> parse_block(args[1], args[2])
      [] method = "try_parse_stmt" -> try_parse_stmt(args[1], args[2])
      [] method = "binary_loop" -> binary_loop(args[1], args[2], args[3], args[4])
      [] method = "parse_binary_expr" -> parse_binary_expr(args[1], args[2], args[3])
      [] method = "parse_unary_expr" -> parse_unary_expr(args[1], args[2])
      [] method = "expr_list_loop" -> expr_list_loop(args[1], args[2], args[3])
      [] method = "parse_expr_list" -> parse_expr_list(args[1], args[2])
      [] method = "postfix_loop" -> postfix_loop(args[1], args[2], args[3])
      [] method = "parse_postfix_expr" -> parse_postfix_expr(args[1], args[2])
      [] method = "struct_lit_loop" -> struct_lit_loop(args[1], args[2], args[3])
      [] method = "parse_struct_lit_fields" -> parse_struct_lit_fields(args[1], args[2])
      [] method = "pattern_list_loop" -> pattern_list_loop(args[1], args[2], args[3])
      [] method = "parse_pattern" -> parse_pattern(args[1], args[2])
      [] method = "match_arm_loop" -> match_arm_loop(args[1], args[2], args[3])
      [] method = "lambda_param_loop" -> lambda_param_loop(args[1], args[2], args[3])
      [] method = "parse_primary_expr" -> parse_primary_expr(args[1], args[2])
      [] method = "parse_function" -> parse_function(args[1], args[2], args[3])
      [] method = "field_loop" -> field_loop(args[1], args[2], args[3], args[4])
      [] method = "parse_struct" -> parse_struct(args[1], args[2], args[3])
      [] method = "variant_loop" -> variant_loop(args[1], args[2], args[3])
      [] method = "parse_enum" -> parse_enum(args[1], args[2], args[3])
      [] method = "trait_method_loop" -> trait_method_loop(args[1], args[2], args[3])
      [] method = "parse_trait" -> parse_trait(args[1], args[2], args[3])
      [] method = "impl_method_loop" -> impl_method_loop(args[1], args[2], args[3])
      [] method = "parse_impl" -> parse_impl(args[1], args[2])
      [] method = "parse_type_alias" -> parse_type_alias(args[1], args[2], args[3])
      [] method = "parse_const" -> parse_const(args[1], args[2], args[3])
      [] method = "import_path_loop" -> import_path_loop(args[1], args[2], args[3])
      [] method = "parse_import" -> parse_import(args[1], args[2])
      [] method = "parse_item" -> parse_item(args[1], args[2])
      [] method = "module_loop" -> module_loop(args[1], args[2], args[3])
      [] method = "parse_module" -> parse_module(args[1])

----------------------------------------------------------------------------
(* Semantic analysis: resolved types, symbols, the scoped symbol table     *)

Primitive(p) == [t |-> "Primitive", p |-> p]
Reference(inner) == [t |-> "Reference", inner |-> inner]
Owned(inner) == [t |-> "Owned", inner |-> inner]
TupleType(types) == [t |-> "Tuple", types |-> types]
ArrayType(elem, size) == [t |-> "Array", elem |-> elem, size |-> size]
FunctionType(params, return_type) ==
    [t |-> "Function", params |-> params, return_type |-> return_type]
UserDefined(name) == [t |-> "UserDefined", name |-> name]
Unknown == [t |-> "Unknown"]

VariableSymbol(ty, mutable, span) ==
    [sym |-> "Variable", ty |-> ty, mutable |-> mutable, span |-> span]
FunctionSymbol(params, return_type, span) ==
    [sym |-> "Function", params |-> params, return_type |-> return_type, span |-> span]
TypeSymbol(kind, span) == [sym |-> "Type", kind |-> kind, span |-> span]

\* A scope is a HashMap<String, Symbol>: a function from the names it holds.
EmptyScope == [n \in {} |-> Nil]

\* HashMap::insert: binds the name, replacing any earlier binding
insert(scope, name, symbol) ==
    [n \in DOMAIN scope \cup {name} |-> IF n = name THEN symbol ELSE scope[n]]

BuiltinTypeNames ==
    {"i8", "i16", "i32", "i64", "u8", "u16", "u32", "u64", "f32", "f64", "bool", "char", "str"}

define_builtin_types ==
    [n \in BuiltinTypeNames \cup {"print", "println"} |->
        IF n \in BuiltinTypeNames
        THEN TypeSymbol("Struct", Span(0, 0))
        ELSE FunctionSymbol(<<Primitive("String")>>, Primitive("Unit"), Span(0, 0))]

\* SymbolTable::new: one scope, holding the built-ins
new_symbol_table == <<define_builtin_types>>

\* A variant that opens no scope.
enter_scope_none(scopes) == scopes

enter_scope(scopes) == Append(scopes, EmptyScope)

\* A variant that pops whatever the depth.
exit_scope_unguarded(scopes) == SubSeq(scopes, 1, Len(scopes) - 1)

exit_scope(scopes) ==
    IF Len(scopes) > 1 THEN SubSeq(scopes, 1, Len(scopes) - 1) ELSE scopes

\* A variant that binds the name whether or not the scope holds it already.
define_overwriting(scopes, name, symbol) ==
    IF Len(scopes) > 0
    THEN [ok |-> TRUE,
          scopes |-> [scopes EXCEPT ![Len(scopes)] = insert(@, name, symbol)]]
    ELSE [ok |-> FALSE, scopes |-> scopes]

\* Result<(), String>: ok, and the scopes afterwards
define(scopes, name, symbol) ==
    IF Len(scopes) > 0
    THEN IF name \in DOMAIN scopes[Len(scopes)]
         THEN [ok |-> FALSE, scopes |-> scopes]
         ELSE [ok |-> TRUE,
               scopes |-> [scopes EXCEPT ![Len(scopes)] = insert(@, name, symbol)]]
    ELSE [ok |-> FALSE, scopes |-> scopes]

\* for scope in scopes.iter().rev(): the innermost binding, as an Option
RECURSIVE lookup_from(_, _, _)
lookup_from(scopes, name, i) ==
    IF i = 0 THEN NoneOpt
    ELSE IF name \in DOMAIN scopes[i] THEN Some(scopes[i][name])
    ELSE lookup_from(scopes, name, i - 1)

lookup(scopes, name) == lookup_from(scopes, name, Len(scopes))

----------------------------------------------------------------------------
(* Semantic analysis: type resolution and compatibility                    *)

\* resolve_type_helper never fails: every arm is Ok(..), so the model returns
\* the resolved type itself.
RECURSIVE resolve_type_helper(_)
resolve_type_helper(ty) ==
    CASE ty.type = "Simple" ->
           LET n == ty.name.value IN
           CASE n = "i8" -> Primitive("I8")
             [] n = "i16" -> Primitive("I16")
             [] n = "i32" -> Primitive("I32")
             [] n = "i64" -> Primitive("I64")
             [] n = "u8" -> Primitive("U8")
             [] n = "u16" -> Primitive("U16")
             [] n = "u32" -> Primitive("U32")
             [] n = "u64" -> Primitive("U64")
             [] n = "f32" -> Primitive("F32")
             [] n = "f64" -> Primitive("F64")
             [] n = "bool" -> Primitive("Bool")
             [] n = "char" -> Primitive("Char")
             [] n = "str" -> Primitive("String")
             [] OTHER -> UserDefined(n)
      [] ty.type = "Ref" -> Reference(resolve_type_helper(ty.inner))
      [] ty.type = "Own" -> Owned(resolve_type_helper(ty.inner))
      [] ty.type = "Tuple" ->
           TupleType([i \in 1..Len(ty.types) |-> resolve_type_helper(ty.types[i])])
      [] ty.type = "Array" -> ArrayType(resolve_type_helper(ty.elem), ty.size)
      [] OTHER -> Unknown

resolve_type(ty) == resolve_type_helper(ty)

\* func.return_type.map(resolve_type).unwrap_or(Unit)
resolve_return_type(return_type) ==
    IF return_type = NoneOpt THEN Primitive("Unit") ELSE resolve_type(return_type[1])

\* A variant in which Unknown is compatible only with itself.
types_compatible_strict(a, b) == a = b

types_compatible(a, b) ==
    IF a = b THEN TRUE
    ELSE IF a = Unknown \/ b = Unknown THEN TRUE
    ELSE FALSE

is_numeric(ty) ==
    /\ ty.t = "Primitive"
    /\ ty.p \in {"I8", "I16", "I32", "I64", "U8", "U16", "U32", "U64", "F32", "F64"}

is_integer(ty) ==
    /\ ty.t = "Primitive"
    /\ ty.p \in {"I8", "I16", "I32", "I64", "U8", "U16", "U32", "U64"}

\* Result<ResolvedType> of the pure operator checks
TOk(ty) == [err |-> NoError, ty |-> ty]
TErr(kind, span) == [err |-> Error(kind, span), ty |-> Nil]

check_binary_op(op, left, right, span) ==
    CASE op \in {"Add", "Sub", "Mul", "Div", "Rem"} ->
           IF is_numeric(left) /\ types_compatible(left, right)
           THEN TOk(left) ELSE TErr("TypeMismatch", span)
      [] op \in {"Eq", "Ne", "Lt", "Le", "Gt", "Ge"} ->
           IF types_compatible(left, right)
           THEN TOk(Primitive("Bool")) ELSE TErr("TypeMismatch", span)
      [] op \in {"And", "Or"} ->
           IF left = Primitive("Bool") /\ right = Primitive("Bool")
           THEN TOk(Primitive("Bool")) ELSE TErr("TypeMismatch", span)
      [] OTHER -> TOk(Unknown)

check_unary_op(op, operand, span) ==
    CASE op = "Neg" ->
           IF is_numeric(operand) THEN TOk(operand) ELSE TErr("TypeMismatch", span)
      [] op = "Not" ->
           IF operand = Primitive("Bool")
           THEN TOk(Primitive("Bool")) ELSE TErr("TypeMismatch", span)
      [] op = "BitNot" ->
           IF is_integer(operand) THEN TOk(operand) ELSE TErr("TypeMismatch", span)

----------------------------------------------------------------------------
(* Semantic analysis: the type checker                                     *)
(*                                                                         *)
(* The checker state ctx holds TypeChecker.symbols (scopes) and            *)
(* TypeChecker.current_function_return, plus log, a history of what the    *)
(* checker did: one event per SymbolTable::define call, per return         *)
(* statement checked, per undefined identifier and per function body       *)
(* checked.  A result is [err, ty, ctx]; after an error ctx is the state   *)
(* the `?` operator leaves behind.                                         *)

COk(ctx, ty) == [err |-> NoError, ty |-> ty, ctx |-> ctx]
CErr(ctx, kind, span) == [err |-> Error(kind, span), ty |-> Nil, ctx |-> ctx]

Logged(ctx, event) == [ctx EXCEPT !.log = Append(@, event)]

\* self.symbols.define(name, symbol).map_err(|e| Error::new(SemanticError, span, e))
define_symbol(ctx, name, symbol, span) ==
    LET d == define(ctx.scopes, name, symbol)
        after == Logged([ctx EXCEPT !.scopes = d.scopes],
                        [ev |-> "define", name |-> name, ok |-> d.ok,
                         before |-> ctx.scopes, after |-> d.scopes])
    IN IF d.ok THEN COk(after, Nil) ELSE CErr(after, "SemanticError", span)

\* self.symbols.exit_scope() at the end of a construct entered with the scope
\* stack `before`; the history keeps the stack at entry, just before the exit
\* and after it
close_scope(ctx, construct, before) ==
    Logged([ctx EXCEPT !.scopes = exit_scope(@)],
           [ev |-> "scope", construct |-> construct, before |-> before,
            inner |-> ctx.scopes, after |-> exit_scope(ctx.scopes)])

\* Every call of one TypeChecker method by another goes through
\* TypeChecker(method, args), defined after check_item.
RECURSIVE TypeChecker(_, _)

check_expr(ctx, expr) ==
    LET k == expr.kind IN
    CASE k = "Integer" -> COk(ctx, Primitive("I32"))
      [] k = "Float" -> COk(ctx, Primitive("F64"))
      [] k = "String" -> COk(ctx, Primitive("String"))
      [] k = "Char" -> COk(ctx, Primitive("Char"))
      [] k = "Bool" -> COk(ctx, Primitive("Bool"))
      [] k = "Ident" ->
           LET found == lookup(ctx.scopes, expr.name)
               s == found[1]
           IN IF found # NoneOpt /\ s.sym = "Variable" THEN COk(ctx, s.ty)
              ELSE IF found # NoneOpt /\ s.sym = "Function"
              THEN COk(ctx, FunctionType(s.params, s.return_type))
              ELSE CErr(Logged(ctx, [ev |-> "undefined", name |-> expr.name]),
                        "SemanticError", expr.span)
      [] k = "Binary" ->
           LET left == TypeChecker("check_expr", <<ctx, expr.left>>)
               right == TypeChecker("check_expr", <<left.ctx, expr.right>>)
               res == check_binary_op(expr.op, left.ty, right.ty, expr.span)
               after == Logged(right.ctx,
                               [ev |-> "binary", op |-> expr.op, left |-> left.ty,
                                right |-> right.ty, err |-> res.err, ty |-> res.ty])
           IN IF left.err # NoError THEN left
              ELSE IF right.err # NoError THEN right
              ELSE [err |-> res.err, ty |-> res.ty, ctx |-> after]
      [] k = "Unary" ->
           LET inner == TypeChecker("check_expr", <<ctx, expr.expr>>)
               res == check_unary_op(expr.op, inner.ty, expr.span)
           IN IF inner.err # NoError THEN inner
              ELSE [err |-> res.err, ty |-> res.ty, ctx |-> inner.ctx]
      [] k = "Call" ->
           LET func_ty == TypeChecker("check_expr", <<ctx, expr.func>>)
               ty == IF func_ty.ty.t = "Function"
                     THEN func_ty.ty.return_type ELSE Unknown
               after == Logged(func_ty.ctx,
                               [ev |-> "call", callee |-> func_ty.ty, err |-> NoError,
                                ty |-> ty])
           IN IF func_ty.err # NoError THEN func_ty ELSE COk(after, ty)
      [] k = "If" ->
           LET cond == TypeChecker("check_expr", <<ctx, expr.condition>>)
               tested == Logged(cond.ctx,
                                [ev |-> "condition", construct |-> "if",
                                 ty |-> cond.ty, span |-> expr.condition.span])
               then_ty == TypeChecker("check_block", <<tested, expr.then_block>>)
               else_ty == TypeChecker("check_block", <<then_ty.ctx, expr.else_block[1]>>)
           IN IF cond.err # NoError THEN cond
              ELSE IF cond.ty # Primitive("Bool")
              THEN CErr(tested, "TypeMismatch", expr.condition.span)
              ELSE IF then_ty.err # NoError THEN then_ty
              ELSE IF expr.else_block # NoneOpt
              THEN IF else_ty.err # NoError THEN else_ty
                   ELSE IF types_compatible(then_ty.ty, else_ty.ty)
                   THEN COk(else_ty.ctx, then_ty.ty)
                   ELSE COk(else_ty.ctx, Primitive("Unit"))
              ELSE COk(then_ty.ctx, Primitive("Unit"))
      [] k = "Block" -> TypeChecker("check_block", <<ctx, expr.block>>)
      [] k = "Range" -> COk(ctx, Unknown)
      [] OTHER -> COk(ctx, Unknown)

\* for stmt in &block.stmts { self.check_stmt(stmt)?; }
check_stmts(ctx, stmts, i) ==
    IF i > Len(stmts) THEN COk(ctx, Nil)
    ELSE LET r == TypeChecker("check_stmt", <<ctx, stmts[i]>>)
         IN IF r.err # NoError THEN r ELSE TypeChecker("check_stmts", <<r.ctx, stmts, i + 1>>)

\* check_block giving every block the unit type
check_block_unit(ctx, block) ==
    LET entered == [ctx EXCEPT !.scopes = enter_scope(@)]
        stmts == TypeChecker("check_stmts", <<entered, block.stmts, 1>>)
        result == IF block.expr # NoneOpt
                  THEN TypeChecker("check_expr", <<stmts.ctx, block.expr[1]>>)
                  ELSE COk(stmts.ctx, Primitive("Unit"))
    IN IF stmts.err # NoError THEN stmts
       ELSE IF result.err # NoError THEN result
       ELSE COk(close_scope(result.ctx, "block", ctx.scopes), Primitive("Unit"))

check_block(ctx, block) ==
    LET entered == [ctx EXCEPT !.scopes = enter_scope(@)]
        stmts == TypeChecker("check_stmts", <<entered, block.stmts, 1>>)
        result == IF block.expr # NoneOpt
                  THEN TypeChecker("check_expr", <<stmts.ctx, block.expr[1]>>)
                  ELSE COk(stmts.ctx, Primitive("Unit"))
    IN IF stmts.err # NoError THEN stmts
       ELSE IF result.err # NoError THEN result
       ELSE COk(close_scope(result.ctx, "block", ctx.scopes), result.ty)

\* A variant whose While arm accepts a condition of any type.
check_stmt_any_condition(ctx, stmt) ==
    LET k == stmt.stmt IN
    CASE k = "Let" ->
           LET value_type == TypeChecker("check_expr", <<ctx, stmt.value[1]>>)
               expected_ty == resolve_type(stmt.ty[1])
           IN IF stmt.value = NoneOpt THEN CErr(ctx, "SemanticError", stmt.name.span)
              ELSE IF value_type.err # NoError THEN value_type
              ELSE IF stmt.ty # NoneOpt /\ ~types_compatible(value_type.ty, expected_ty)
              THEN CErr(value_type.ctx, "TypeMismatch", stmt.name.span)
              ELSE define_symbol(value_type.ctx, stmt.name.value,
                                 VariableSymbol(value_type.ty, stmt.mutable, stmt.name.span),
                                 stmt.name.span)
      [] k = "Return" ->
           LET value == IF stmt.value # NoneOpt THEN TypeChecker("check_expr", <<ctx, stmt.value[1]>>)
                        ELSE COk(ctx, Primitive("Unit"))
               expected == value.ctx.current_function_return
               mismatch == /\ expected # NoneOpt
                           /\ ~types_compatible(value.ty, expected[1])
               after == Logged(value.ctx, [ev |-> "return", found |-> value.ty,
                                           expected |-> expected, mismatch |-> mismatch])
           IN IF value.err # NoError THEN value
              ELSE IF mismatch THEN CErr(after, "TypeMismatch", Span(0, 0))
              ELSE COk(after, Nil)
      [] k = "Expr" ->
           LET r == TypeChecker("check_expr", <<ctx, stmt.expr>>)
           IN IF r.err # NoError THEN r ELSE COk(r.ctx, Nil)
      [] k = "While" ->
           LET cond == TypeChecker("check_expr", <<ctx, stmt.condition>>)
               tested == Logged(cond.ctx,
                                [ev |-> "condition", construct |-> "while",
                                 ty |-> cond.ty, span |-> stmt.condition.span])
               body == TypeChecker("check_block", <<tested, stmt.body>>)
           IN IF cond.err # NoError THEN cond
              ELSE IF FALSE
              THEN CErr(tested, "TypeMismatch", stmt.condition.span)
              ELSE IF body.err # NoError THEN body
              ELSE COk(body.ctx, Nil)
      [] k = "For" ->
           LET entered == [ctx EXCEPT !.scopes = enter_scope(@)]
               var == define_symbol(entered, stmt.var.value,
                                    VariableSymbol(Primitive("I32"), FALSE, stmt.var.span),
                                    stmt.var.span)
               iter == TypeChecker("check_expr", <<var.ctx, stmt.iter>>)
               body == TypeChecker("check_block", <<iter.ctx, stmt.body>>)
           IN IF var.err # NoError THEN var
              ELSE IF iter.err # NoError THEN iter
              ELSE IF body.err # NoError THEN body
              ELSE COk(close_scope(body.ctx, "for", ctx.scopes), Nil)
      [] k = "Loop" ->
           LET body == TypeChecker("check_block", <<ctx, stmt.body>>)
           IN IF body.err # NoError THEN body ELSE COk(body.ctx, Nil)
      [] OTHER -> COk(ctx, Nil)

check_stmt(ctx, stmt) ==
    LET k == stmt.stmt IN
    CASE k = "Let" ->
           LET value_type == TypeChecker("check_expr", <<ctx, stmt.value[1]>>)
               expected_ty == resolve_type(stmt.ty[1])
           IN IF stmt.value = NoneOpt THEN CErr(ctx, "SemanticError", stmt.name.span)
              ELSE IF value_type.err # NoError THEN value_type
              ELSE IF stmt.ty # NoneOpt /\ ~types_compatible(value_type.ty, expected_ty)
              THEN CErr(value_type.ctx, "TypeMismatch", stmt.name.span)
              ELSE define_symbol(value_type.ctx, stmt.name.value,
                                 VariableSymbol(value_type.ty, stmt.mutable, stmt.name.span),
                                 stmt.name.span)
      [] k = "Return" ->
           LET value == IF stmt.value # NoneOpt THEN TypeChecker("check_expr", <<ctx, stmt.value[1]>>)
                        ELSE COk(ctx, Primitive("Unit"))
               expected == value.ctx.current_function_return
               mismatch == /\ expected # NoneOpt
                           /\ ~types_compatible(value.ty, expected[1])
               after == Logged(value.ctx, [ev |-> "return", found |-> value.ty,
                                           expected |-> expected, mismatch |-> mismatch])
           IN IF value.err # NoError THEN value
              ELSE IF mismatch THEN CErr(after, "TypeMismatch", Span(0, 0))
              ELSE COk(after, Nil)
      [] k = "Expr" ->
           LET r == TypeChecker("check_expr", <<ctx, stmt.expr>>)
           IN IF r.err # NoError THEN r ELSE COk(r.ctx, Nil)
      [] k = "While" ->
           LET cond == TypeChecker("check_expr", <<ctx, stmt.condition>>)
               tested == Logged(cond.ctx,
                                [ev |-> "condition", construct |-> "while",
                                 ty |-> cond.ty, span |-> stmt.condition.span])
               body == TypeChecker("check_block", <<tested, stmt.body>>)
           IN IF cond.err # NoError THEN cond
              ELSE IF cond.ty # Primitive("Bool")
              THEN CErr(tested, "TypeMismatch", stmt.condition.span)
              ELSE IF body.err # NoError THEN body
              ELSE COk(body.ctx, Nil)
      [] k = "For" ->
           LET entered == [ctx EXCEPT !.scopes = enter_scope(@)]
               var == define_symbol(entered, stmt.var.value,
                                    VariableSymbol(Primitive("I32"), FALSE, stmt.var.span),
                                    stmt.var.span)
               iter == TypeChecker("check_expr", <<var.ctx, stmt.iter>>)
               body == TypeChecker("check_block", <<iter.ctx, stmt.body>>)
           IN IF var.err # NoError THEN var
              ELSE IF iter.err # NoError THEN iter
              ELSE IF body.err # NoError THEN body
              ELSE COk(close_scope(body.ctx, "for", ctx.scopes), Nil)
      [] k = "Loop" ->
           LET body == TypeChecker("check_block", <<ctx, stmt.body>>)
           IN IF body.err # NoError THEN body ELSE COk(body.ctx, Nil)
      [] OTHER -> COk(ctx, Nil)

\* for param in &func.params { define(param.name, Variable { ty, .. })?; }
RECURSIVE define_params(_, _, _)
define_params(ctx, params, i) ==
    IF i > Len(params) THEN COk(ctx, Nil)
    ELSE LET r == define_symbol(ctx, params[i].name.value,
                                VariableSymbol(resolve_type(params[i].ty), FALSE,
                                               params[i].name.span),
                                params[i].name.span)
         IN IF r.err # NoError THEN r ELSE define_params(r.ctx, params, i + 1)

check_function(ctx, func) ==
    LET entered == [ctx EXCEPT !.scopes = enter_scope(@)]
        params == define_params(entered, func.params, 1)
        return_type == resolve_return_type(func.return_type)
        ready == [params.ctx EXCEPT !.current_function_return = Some(return_type)]
        body == TypeChecker("check_block", <<ready, func.body>>)
        checked == Logged(body.ctx, [ev |-> "body", name |-> func.name.value,
                                     ty |-> body.ty])
    IN IF params.err # NoError THEN params
       ELSE IF body.err # NoError THEN body
       ELSE COk(close_scope([checked EXCEPT !.current_function_return = NoneOpt],
                            "function", ctx.scopes), Nil)

\* A variant of pass 1 that enters type names only, no function signature.
collect_item_types_only(ctx, item) ==
    CASE item.item = "Struct" ->
           define_symbol(ctx, item.name.value, TypeSymbol("Struct", item.name.span),
                         item.name.span)
      [] item.item = "Enum" ->
           define_symbol(ctx, item.name.value, TypeSymbol("Enum", item.name.span),
                         item.name.span)
      [] item.item = "Trait" ->
           define_symbol(ctx, item.name.value, TypeSymbol("Trait", item.name.span),
                         item.name.span)
      [] OTHER -> COk(ctx, Nil)

collect_item(ctx, item) ==
    CASE item.item = "Function" ->
           define_symbol(ctx, item.name.value,
                         FunctionSymbol([i \in 1..Len(item.params) |->
                                            resolve_type(item.params[i].ty)],
                                        resolve_return_type(item.return_type),
                                        item.name.span),
                         item.name.span)
      [] item.item = "Struct" ->
           define_symbol(ctx, item.name.value, TypeSymbol("Struct", item.name.span),
                         item.name.span)
      [] item.item = "Enum" ->
           define_symbol(ctx, item.name.value, TypeSymbol("Enum", item.name.span),
                         item.name.span)
      [] item.item = "Trait" ->
           define_symbol(ctx, item.name.value, TypeSymbol("Trait", item.name.span),
                         item.name.span)
      [] OTHER -> COk(ctx, Nil)

check_item(ctx, item) ==
    IF item.item = "Function" THEN TypeChecker("check_function", <<ctx, item>>) ELSE COk(ctx, Nil)

\* impl TypeChecker: a call self.method(..) runs the method of that name on
\* the checker state.
TypeChecker(method, args) ==
    CASE method = "check_expr" -> check_expr(args[1], args[2])
      [] method = "check_stmts" -> check_stmts(args[1], args[2], args[3])
      [] method = "check_block" -> check_block(args[1], args[2])
      [] method = "check_stmt" -> check_stmt(args[1], args[2])
      [] method = "check_function" -> check_function(args[1], args[2])
      [] method = "check_item" -> check_item(args[1], args[2])

----------------------------------------------------------------------------
(* Code generation: the IR text is the sequence of the pieces pushed onto  *)
(* the output string, in order                                             *)

\* for (i, param) in func.params.iter().enumerate()
RECURSIVE param_ir(_, _)
param_ir(params, i) ==
    IF i > Len(params) THEN <<>>
    ELSE (IF i > 1 THEN <<", ">> ELSE <<>>)
         \o <<"i32 %", params[i].name.value>>
         \o param_ir(params, i + 1)

generate_function(func) ==
    LET return_ty == IF func.return_type # NoneOpt THEN "i32" ELSE "void"
    IN <<"define " \o return_ty \o " @" \o func.name.value \o "(">>
       \o param_ir(func.params, 1)
       \o <<") {\n", "entry:\n">>
       \o (IF func.name.value = "main"
           THEN <<"  ; Main function body\n", "  ret i32 0\n">>
           ELSE IF return_ty = "void" THEN <<"  ret void\n">>
           ELSE <<"  ret i32 0\n">>)
       \o <<"}\n">>

\* for item in &module.items
RECURSIVE items_ir(_, _)
items_ir(items, i) ==
    IF i > Len(items) THEN <<>>
    ELSE (IF items[i].item = "Function"
          THEN generate_function(items[i]) \o <<"\n">>
          ELSE <<>>)
         \o items_ir(items, i + 1)

generate_module(module_name, module) ==
    <<"; ModuleID = '" \o module_name \o "'\n",
      "source_filename = \"", module_name, "\"\n\n",
      "; Built-in functions\n",
      "declare i32 @printf(i8*, ...)\n",
      "declare i32 @puts(i8*)\n\n">>
    \o items_ir(module.items, 1)

----------------------------------------------------------------------------
(* Source texts the lexer is run on                                        *)

Alphabet == {"a", "1", " ", "\n", ";", "}", "+", "/"}

\* fn main() { }
SrcFnMain ==
    <<"f","n"," ","m","a","i","n","(",")"," ","{"," ","}">>

\* fn main() {\n}\n
SrcFnMainLines ==
    <<"f","n"," ","m","a","i","n","(",")"," ","{","\n","}","\n">>

\* import a;
SrcImport ==
    <<"i","m","p","o","r","t"," ","a",";">>

\* type T = i32
SrcTypeAlias ==
    <<"t","y","p","e"," ","T"," ","="," ","i","3","2">>

\* const X: i32 = 1\n
SrcConst ==
    <<"c","o","n","s","t"," ","X",":"," ","i","3","2"," ","="," ","1","\n">>

\* import a;\nfn f() { }
SrcImportFn ==
    <<"i","m","p","o","r","t"," ","a",";","\n","f","n"," ","f","(",")"," ","{"," ","}">>

\* fn f() { if true { }\n}
SrcIfStmt ==
    <<"f","n"," ","f","(",")"," ","{"," ","i","f"," ","t","r","u","e"," ","{"," ","}","\n","}">>

\* fn f() { while true { }\n}
SrcWhileStmt ==
    <<"f","n"," ","f","(",")"," ","{"," ","w","h","i","l","e"," ","t","r","u","e"," ","{"," ","}","\n","}">>

\* fn f() {\nloop { }\ng()\n}\n
SrcLoopCall ==
    <<"f","n"," ","f","(",")"," ","{","\n","l","o","o","p"," ","{"," ","}","\n","g","(",")","\n","}","\n">>

\* fn f() { { }\n1 }
SrcBlockStmt ==
    <<"f","n"," ","f","(",")"," ","{"," ","{"," ","}","\n","1"," ","}">>

\* fn f() { g(); 1 } import a;
SrcOneLineBody ==
    <<"f","n"," ","f","(",")"," ","{"," ","g","(",")",";"," ","1"," ","}"," ","i","m","p","o","r","t"," ","a",";">>

\* fn let mut if else while for
SrcKeywords ==
    <<"f","n"," ","l","e","t"," ","m","u","t"," ","i","f"," ","e","l","s","e"," ","w","h","i","l","e"," ","f","o","r">>

\* hello world _test test123
SrcIdentifiers ==
    <<"h","e","l","l","o"," ","w","o","r","l","d"," ","_","t","e","s","t"," ","t","e","s","t","1","2","3">>

\* 42 3.15 0 100
SrcNumbers ==
    <<"4","2"," ","3",".","1","5"," ","0"," ","1","0","0">>

\* \nlet x = 42\nlet y = 100\n        
SrcLets ==
    <<"\n","l","e","t"," ","x"," ","="," ","4","2","\n","l","e","t"," ","y"," ","="," ","1","0","0","\n"," "," "," "," "," "," "," "," ">>

\* \nlet x = 42;\nlet y = 100;\n        
SrcExplicit ==
    <<"\n","l","e","t"," ","x"," ","="," ","4","2",";","\n","l","e","t"," ","y"," ","="," ","1","0","0",";","\n"," "," "," "," "," "," "," "," ">>

\* return\n1
SrcReturnLine ==
    <<"r","e","t","u","r","n","\n","1">>

\* break\ncontinue\n;
SrcBreakLine ==
    <<"b","r","e","a","k","\n","c","o","n","t","i","n","u","e","\n",";">>

\* a /*\n*/ b
SrcBlockComment ==
    <<"a"," ","/","*","\n","*","/"," ","b">>

\* x = 1 +\n2
SrcOperatorLine ==
    <<"x"," ","="," ","1"," ","+","\n","2">>

\* (\n)\n[\n]\n{\n}
SrcClosers ==
    <<"(","\n",")","\n","[","\n","]","\n","{","\n","}">>

\* true\nfalse\n"s"\n'c'\n1.5\n
SrcLiterals ==
    <<"t","r","u","e","\n","f","a","l","s","e","\n","\"","s","\"","\n","'","c","'","\n","1",".","5","\n">>

\* a\n@
SrcBadChar ==
    <<"a","\n","@">>

\* x\n"ab\n"
SrcOpenString ==
    <<"x","\n","\"","a","b","\n","\"">>

Corpus ==
    {SrcFnMain,
     SrcFnMainLines,
     SrcImport,
     SrcTypeAlias,
     SrcConst,
     SrcImportFn,
     SrcIfStmt,
     SrcWhileStmt,
     SrcLoopCall,
     SrcBlockStmt,
     SrcOneLineBody,
     SrcKeywords,
     SrcIdentifiers,
     SrcNumbers,
     SrcLets,
     SrcExplicit,
     SrcReturnLine,
     SrcBreakLine,
     SrcBlockComment,
     SrcOperatorLine,
     SrcClosers,
     SrcLiterals,
     SrcBadChar,
     SrcOpenString}

----------------------------------------------------------------------------
(* Programs for the later stages.  A closing brace at the end of the text  *)
(* is followed by a terminator token, so each text ends in an import.      *)

\* fn main() { } import a;
SrcMainImport ==
    <<"f","n"," ","m","a","i","n","(",")"," ","{"," ","}"," ","i","m","p",
      "o","r","t"," ","a",";">>

\* fn main() -> i32 { return 0; } import a;
SrcMainI32 ==
    <<"f","n"," ","m","a","i","n","(",")"," ","-",">"," ","i","3","2"," ",
      "{"," ","r","e","t","u","r","n"," ","0",";"," ","}"," ","i","m","p",
      "o","r","t"," ","a",";">>

\* fn add(x: i32, y: i32) -> i32 { return x + y; } import a;
SrcParams ==
    <<"f","n"," ","a","d","d","(","x",":"," ","i","3","2",","," ","y",":",
      " ","i","3","2",")"," ","-",">"," ","i","3","2"," ","{"," ","r","e",
      "t","u","r","n"," ","x"," ","+"," ","y",";"," ","}"," ","i","m","p",
      "o","r","t"," ","a",";">>

\* fn f() { g(); } fn g() { } import a;
SrcForward ==
    <<"f","n"," ","f","(",")"," ","{"," ","g","(",")",";"," ","}"," ","f",
      "n"," ","g","(",")"," ","{"," ","}"," ","i","m","p","o","r","t"," ",
      "a",";">>

\* fn f() -> i32 { return g(); } fn g() -> i32 { return f(); } import a;
SrcMutual ==
    <<"f","n"," ","f","(",")"," ","-",">"," ","i","3","2"," ","{"," ","r",
      "e","t","u","r","n"," ","g","(",")",";"," ","}"," ","f","n"," ","g",
      "(",")"," ","-",">"," ","i","3","2"," ","{"," ","r","e","t","u","r",
      "n"," ","f","(",")",";"," ","}"," ","i","m","p","o","r","t"," ","a",
      ";">>

\* fn f() { g() } fn g() {}
SrcScenario5 ==
    <<"f","n"," ","f","(",")"," ","{"," ","g","(",")"," ","}"," ","f","n",
      " ","g","(",")"," ","{","}">>

\* fn f() { h(); } import a;
SrcUndefinedCall ==
    <<"f","n"," ","f","(",")"," ","{"," ","h","(",")",";"," ","}"," ","i",
      "m","p","o","r","t"," ","a",";">>

\* fn f() { let x = 1; let x = 2; } import a;
SrcDupLet ==
    <<"f","n"," ","f","(",")"," ","{"," ","l","e","t"," ","x"," ","="," ",
      "1",";"," ","l","e","t"," ","x"," ","="," ","2",";"," ","}"," ","i",
      "m","p","o","r","t"," ","a",";">>

\* fn f() { let x = 1; { let x = true; } } import a;
SrcShadowBlock ==
    <<"f","n"," ","f","(",")"," ","{"," ","l","e","t"," ","x"," ","="," ",
      "1",";"," ","{"," ","l","e","t"," ","x"," ","="," ","t","r","u","e",
      ";"," ","}"," ","}"," ","i","m","p","o","r","t"," ","a",";">>

\* fn f(x: i32) { let x = true; } import a;
SrcShadowParam ==
    <<"f","n"," ","f","(","x",":"," ","i","3","2",")"," ","{"," ","l","e",
      "t"," ","x"," ","="," ","t","r","u","e",";"," ","}"," ","i","m","p",
      "o","r","t"," ","a",";">>

\* fn f(x: i32) { let x = 1; let x = 2; } import a;
SrcShadowThenDup ==
    <<"f","n"," ","f","(","x",":"," ","i","3","2",")"," ","{"," ","l","e",
      "t"," ","x"," ","="," ","1",";"," ","l","e","t"," ","x"," ","="," ",
      "2",";"," ","}"," ","i","m","p","o","r","t"," ","a",";">>

\* fn f(x: i32, x: bool) { } import a;
SrcDupParam ==
    <<"f","n"," ","f","(","x",":"," ","i","3","2",","," ","x",":"," ","b",
      "o","o","l",")"," ","{"," ","}"," ","i","m","p","o","r","t"," ","a",
      ";">>

\* fn f() { } fn f() { } import a;
SrcDupFn ==
    <<"f","n"," ","f","(",")"," ","{"," ","}"," ","f","n"," ","f","(",")",
      " ","{"," ","}"," ","i","m","p","o","r","t"," ","a",";">>

\* struct S { } enum S { A } import a;
SrcDupType ==
    <<"s","t","r","u","c","t"," ","S"," ","{"," ","}"," ","e","n","u","m",
      " ","S"," ","{"," ","A"," ","}"," ","i","m","p","o","r","t"," ","a",
      ";">>

\* trait T { fn m(); } struct T { } import a;
SrcTraitStruct ==
    <<"t","r","a","i","t"," ","T"," ","{"," ","f","n"," ","m","(",")",";",
      " ","}"," ","s","t","r","u","c","t"," ","T"," ","{"," ","}"," ","i",
      "m","p","o","r","t"," ","a",";">>

\* fn print() { } import a;
SrcBuiltinClash ==
    <<"f","n"," ","p","r","i","n","t","(",")"," ","{"," ","}"," ","i","m",
      "p","o","r","t"," ","a",";">>

\* fn f() { let f = 1; } import a;
SrcShadowFn ==
    <<"f","n"," ","f","(",")"," ","{"," ","l","e","t"," ","f"," ","="," ",
      "1",";"," ","}"," ","i","m","p","o","r","t"," ","a",";">>

\* fn f() { for i in 1..2 { let i = true; } } import a;
SrcForShadow ==
    <<"f","n"," ","f","(",")"," ","{"," ","f","o","r"," ","i"," ","i","n",
      " ","1",".",".","2"," ","{"," ","l","e","t"," ","i"," ","="," ","t",
      "r","u","e",";"," ","}"," ","}"," ","i","m","p","o","r","t"," ","a",
      ";">>

\* const c: i32 = 1; const c: i32 = 2;
SrcDupConst ==
    <<"c","o","n","s","t"," ","c",":"," ","i","3","2"," ","="," ","1",";",
      " ","c","o","n","s","t"," ","c",":"," ","i","3","2"," ","="," ","2",
      ";">>

\* fn f() -> i32 { if true { return true; } return 1; } import a;
SrcReturnNested ==
    <<"f","n"," ","f","(",")"," ","-",">"," ","i","3","2"," ","{"," ","i",
      "f"," ","t","r","u","e"," ","{"," ","r","e","t","u","r","n"," ","t",
      "r","u","e",";"," ","}"," ","r","e","t","u","r","n"," ","1",";"," ",
      "}"," ","i","m","p","o","r","t"," ","a",";">>

\* fn f() -> bool { while true { return 1; } } import a;
SrcWhileReturn ==
    <<"f","n"," ","f","(",")"," ","-",">"," ","b","o","o","l"," ","{"," ",
      "w","h","i","l","e"," ","t","r","u","e"," ","{"," ","r","e","t","u",
      "r","n"," ","1",";"," ","}"," ","}"," ","i","m","p","o","r","t"," ",
      "a",";">>

\* fn f() -> i32 { let x = true; return x; } import a;
SrcLetReturn ==
    <<"f","n"," ","f","(",")"," ","-",">"," ","i","3","2"," ","{"," ","l",
      "e","t"," ","x"," ","="," ","t","r","u","e",";"," ","r","e","t","u",
      "r","n"," ","x",";"," ","}"," ","i","m","p","o","r","t"," ","a",";">>

\* fn f() -> i32 { let x = 1; return x(); } import a;
SrcCallUnknown ==
    <<"f","n"," ","f","(",")"," ","-",">"," ","i","3","2"," ","{"," ","l",
      "e","t"," ","x"," ","="," ","1",";"," ","r","e","t","u","r","n"," ",
      "x","(",")",";"," ","}"," ","i","m","p","o","r","t"," ","a",";">>

\* impl S { fn m() -> i32 { return true; } } import a;
SrcImplReturn ==
    <<"i","m","p","l"," ","S"," ","{"," ","f","n"," ","m","(",")"," ","-",
      ">"," ","i","3","2"," ","{"," ","r","e","t","u","r","n"," ","t","r",
      "u","e",";"," ","}"," ","}"," ","i","m","p","o","r","t"," ","a",";">>

Programs ==
    {SrcMainImport,
     SrcMainI32,
     SrcParams,
     SrcForward,
     SrcMutual,
     SrcScenario5,
     SrcUndefinedCall,
     SrcDupLet,
     SrcShadowBlock,
     SrcShadowParam,
     SrcShadowThenDup,
     SrcDupParam,
     SrcDupFn,
     SrcDupType,
     SrcTraitStruct,
     SrcBuiltinClash,
     SrcShadowFn,
     SrcForShadow,
     SrcDupConst,
     SrcReturnNested,
     SrcWhileReturn,
     SrcLetReturn,
     SrcCallUnknown,
     SrcImplReturn}

\* One function `fn f() <return type> { <body> } import a;` for every
\* declared return type and body below.

\* fn f()
FnHead ==
    <<"f","n"," ","f","(",")">>

\* no declared return type
RetNone == <<>>

\*  -> i32
RetI32 ==
    <<" ","-",">"," ","i","3","2">>

\*  -> bool
RetBool ==
    <<" ","-",">"," ","b","o","o","l">>

\*  -> T
RetUser ==
    <<" ","-",">"," ","T">>

\*  { }
BodyEmpty ==
    <<" ","{"," ","}">>

\*  { return; }
BodyReturn ==
    <<" ","{"," ","r","e","t","u","r","n",";"," ","}">>

\*  { return 1; }
BodyReturnInt ==
    <<" ","{"," ","r","e","t","u","r","n"," ","1",";"," ","}">>

\*  { return true; }
BodyReturnBool ==
    <<" ","{"," ","r","e","t","u","r","n"," ","t","r","u","e",";"," ","}">>

\*  { return [1]; }
BodyReturnArray ==
    <<" ","{"," ","r","e","t","u","r","n"," ","[","1","]",";"," ","}">>

\*  { return print(1); }
BodyReturnPrint ==
    <<" ","{"," ","r","e","t","u","r","n"," ","p","r","i","n","t","(","1",
      ")",";"," ","}">>

\*  { return f; }
BodyReturnSelf ==
    <<" ","{"," ","r","e","t","u","r","n"," ","f",";"," ","}">>

\*  { return 1; return true; }
BodyReturnTwice ==
    <<" ","{"," ","r","e","t","u","r","n"," ","1",";"," ","r","e","t","u",
      "r","n"," ","t","r","u","e",";"," ","}">>

\*  { return [1]; return true; }
BodyReturnArrayThenBool ==
    <<" ","{"," ","r","e","t","u","r","n"," ","[","1","]",";"," ","r","e",
      "t","u","r","n"," ","t","r","u","e",";"," ","}">>

\*  { 1 }
BodyTrailInt ==
    <<" ","{"," ","1"," ","}">>

\*  { true }
BodyTrailBool ==
    <<" ","{"," ","t","r","u","e"," ","}">>

\*  { [1] }
BodyTrailArray ==
    <<" ","{"," ","[","1","]"," ","}">>

\*  { f() }
BodyTrailCall ==
    <<" ","{"," ","f","(",")"," ","}">>

\*  import a;
ImportTail ==
    <<" ","i","m","p","o","r","t"," ","a",";">>

ReturnTypes == {RetNone, RetI32, RetBool, RetUser}

Bodies ==
    {BodyEmpty,
     BodyReturn,
     BodyReturnInt,
     BodyReturnBool,
     BodyReturnArray,
     BodyReturnPrint,
     BodyReturnSelf,
     BodyReturnTwice,
     BodyReturnArrayThenBool,
     BodyTrailInt,
     BodyTrailBool,
     BodyTrailArray,
     BodyTrailCall}

FunctionSources ==
    {FnHead \o ret \o body \o ImportTail : ret \in ReturnTypes, body \in Bodies}

----------------------------------------------------------------------------
(* Programs that exercise the typing rules, the scopes and the item forms   *)

\* fn f(i: bool) { for i in 1..2 { let i = true; } } import a;
SrcForShadowParam ==
    <<"f","n"," ","f","(","i",":"," ","b","o","o","l",")"," ","{"," ","f",
      "o","r"," ","i"," ","i","n"," ","1",".",".","2"," ","{"," ","l","e",
      "t"," ","i"," ","="," ","t","r","u","e",";"," ","}"," ","}"," ","i",
      "m","p","o","r","t"," ","a",";">>

\* fn f() { let x = 1 + 2; } import a;
SrcArithInts ==
    <<"f","n"," ","f","(",")"," ","{"," ","l","e","t"," ","x"," ","="," ",
      "1"," ","+"," ","2",";"," ","}"," ","i","m","p","o","r","t"," ","a",
      ";">>

\* fn f() { let x = 1 + true; } import a;
SrcArithBool ==
    <<"f","n"," ","f","(",")"," ","{"," ","l","e","t"," ","x"," ","="," ",
      "1"," ","+"," ","t","r","u","e",";"," ","}"," ","i","m","p","o","r",
      "t"," ","a",";">>

\* fn f() { let x = 1 + [2]; } import a;
SrcArithUnknownRight ==
    <<"f","n"," ","f","(",")"," ","{"," ","l","e","t"," ","x"," ","="," ",
      "1"," ","+"," ","[","2","]",";"," ","}"," ","i","m","p","o","r","t",
      " ","a",";">>

\* fn f() { let x = [1] * 2; } import a;
SrcArithUnknownLeft ==
    <<"f","n"," ","f","(",")"," ","{"," ","l","e","t"," ","x"," ","="," ",
      "[","1","]"," ","*"," ","2",";"," ","}"," ","i","m","p","o","r","t",
      " ","a",";">>

\* fn f() { let x = 1.5 - 2; } import a;
SrcArithFloatInt ==
    <<"f","n"," ","f","(",")"," ","{"," ","l","e","t"," ","x"," ","="," ",
      "1",".","5"," ","-"," ","2",";"," ","}"," ","i","m","p","o","r","t",
      " ","a",";">>

\* fn f(x: u8, y: u8, z: str) { x / y; x % z; } import a;
SrcArithParams ==
    <<"f","n"," ","f","(","x",":"," ","u","8",","," ","y",":"," ","u","8",
      ","," ","z",":"," ","s","t","r",")"," ","{"," ","x"," ","/"," ","y",
      ";"," ","x"," ","%"," ","z",";"," ","}"," ","i","m","p","o","r","t",
      " ","a",";">>

\* fn f() { while 1 { let x = 1; } } import a;
SrcWhileInt ==
    <<"f","n"," ","f","(",")"," ","{"," ","w","h","i","l","e"," ","1"," ",
      "{"," ","l","e","t"," ","x"," ","="," ","1",";"," ","}"," ","}"," ",
      "i","m","p","o","r","t"," ","a",";">>

\* fn f() { while [1] { let x = 1; } } import a;
SrcWhileUnknown ==
    <<"f","n"," ","f","(",")"," ","{"," ","w","h","i","l","e"," ","[","1",
      "]"," ","{"," ","l","e","t"," ","x"," ","="," ","1",";"," ","}"," ",
      "}"," ","i","m","p","o","r","t"," ","a",";">>

\* fn f() { while 1 < 2 { let x = 1; } } import a;
SrcWhileBool ==
    <<"f","n"," ","f","(",")"," ","{"," ","w","h","i","l","e"," ","1"," ",
      "<"," ","2"," ","{"," ","l","e","t"," ","x"," ","="," ","1",";"," ",
      "}"," ","}"," ","i","m","p","o","r","t"," ","a",";">>

\* fn f() { if 1 { let y = 2; } } import a;
SrcIfInt ==
    <<"f","n"," ","f","(",")"," ","{"," ","i","f"," ","1"," ","{"," ","l",
      "e","t"," ","y"," ","="," ","2",";"," ","}"," ","}"," ","i","m","p",
      "o","r","t"," ","a",";">>

\* fn f(x: i32) { if x() { let y = 2; } else { } } import a;
SrcIfUnknown ==
    <<"f","n"," ","f","(","x",":"," ","i","3","2",")"," ","{"," ","i","f",
      " ","x","(",")"," ","{"," ","l","e","t"," ","y"," ","="," ","2",";",
      " ","}"," ","e","l","s","e"," ","{"," ","}"," ","}"," ","i","m","p",
      "o","r","t"," ","a",";">>

\* fn f() { if 1 == 1 { let y = 2; } else { let z = 3; } } import a;
SrcIfBool ==
    <<"f","n"," ","f","(",")"," ","{"," ","i","f"," ","1"," ","=","="," ",
      "1"," ","{"," ","l","e","t"," ","y"," ","="," ","2",";"," ","}"," ",
      "e","l","s","e"," ","{"," ","l","e","t"," ","z"," ","="," ","3",";",
      " ","}"," ","}"," ","i","m","p","o","r","t"," ","a",";">>

\* fn f() { [1](); } import a;
SrcCallUnknownCallee ==
    <<"f","n"," ","f","(",")"," ","{"," ","[","1","]","(",")",";"," ","}",
      " ","i","m","p","o","r","t"," ","a",";">>

\* fn f() { print(y); } import a;
SrcUndefinedArg ==
    <<"f","n"," ","f","(",")"," ","{"," ","p","r","i","n","t","(","y",")",
      ";"," ","}"," ","i","m","p","o","r","t"," ","a",";">>

\* fn f() { let t = [y, 1]; } import a;
SrcUndefinedElem ==
    <<"f","n"," ","f","(",")"," ","{"," ","l","e","t"," ","t"," ","="," ",
      "[","y",","," ","1","]",";"," ","}"," ","i","m","p","o","r","t"," ",
      "a",";">>

\* fn f() { y.m(z); } import a;
SrcUndefinedReceiver ==
    <<"f","n"," ","f","(",")"," ","{"," ","y",".","m","(","z",")",";"," ",
      "}"," ","i","m","p","o","r","t"," ","a",";">>

\* fn f(y: str) { print(y); } import a;
SrcDefinedArg ==
    <<"f","n"," ","f","(","y",":"," ","s","t","r",")"," ","{"," ","p","r",
      "i","n","t","(","y",")",";"," ","}"," ","i","m","p","o","r","t"," ",
      "a",";">>

\* async fn f() { } import a;
SrcAsyncFn ==
    <<"a","s","y","n","c"," ","f","n"," ","f","(",")"," ","{"," ","}"," ",
      "i","m","p","o","r","t"," ","a",";">>

\* pub async fn f() { } import a;
SrcPubAsyncFn ==
    <<"p","u","b"," ","a","s","y","n","c"," ","f","n"," ","f","(",")"," ",
      "{"," ","}"," ","i","m","p","o","r","t"," ","a",";">>

\* pub fn f() { } import a;
SrcPubFn ==
    <<"p","u","b"," ","f","n"," ","f","(",")"," ","{"," ","}"," ","i","m",
      "p","o","r","t"," ","a",";">>

\* let x = 1; import a;
SrcLetItem ==
    <<"l","e","t"," ","x"," ","="," ","1",";"," ","i","m","p","o","r","t",
      " ","a",";">>

\* pub x; import a;
SrcPubLetItem ==
    <<"p","u","b"," ","x",";"," ","i","m","p","o","r","t"," ","a",";">>

\* fn f() -> bool { let x: i32 = [1]; return x; } import a;
SrcLetUnknownInit ==
    <<"f","n"," ","f","(",")"," ","-",">"," ","b","o","o","l"," ","{"," ",
      "l","e","t"," ","x",":"," ","i","3","2"," ","="," ","[","1","]",";",
      " ","r","e","t","u","r","n"," ","x",";"," ","}"," ","i","m","p","o",
      "r","t"," ","a",";">>

\* fn f() -> i32 { let x: i32 = 1; return x; } import a;
SrcLetKnownInit ==
    <<"f","n"," ","f","(",")"," ","-",">"," ","i","3","2"," ","{"," ","l",
      "e","t"," ","x",":"," ","i","3","2"," ","="," ","1",";"," ","r","e",
      "t","u","r","n"," ","x",";"," ","}"," ","i","m","p","o","r","t"," ",
      "a",";">>

\* fn f() -> i32 { let b: bool = true; return b; } import a;
SrcLetBoolInit ==
    <<"f","n"," ","f","(",")"," ","-",">"," ","i","3","2"," ","{"," ","l",
      "e","t"," ","b",":"," ","b","o","o","l"," ","="," ","t","r","u","e",
      ";"," ","r","e","t","u","r","n"," ","b",";"," ","}"," ","i","m","p",
      "o","r","t"," ","a",";">>

\* fn g() { } fn f() -> i32 { let x: i32 = g(); return x; } import a;
SrcLetCallInit ==
    <<"f","n"," ","g","(",")"," ","{"," ","}"," ","f","n"," ","f","(",")",
      " ","-",">"," ","i","3","2"," ","{"," ","l","e","t"," ","x",":"," ",
      "i","3","2"," ","="," ","g","(",")",";"," ","r","e","t","u","r","n",
      " ","x",";"," ","}"," ","i","m","p","o","r","t"," ","a",";">>

\* impl S { fn m() { y; } } fn g() { } import a;
SrcImplUndefined ==
    <<"i","m","p","l"," ","S"," ","{"," ","f","n"," ","m","(",")"," ","{",
      " ","y",";"," ","}"," ","}"," ","f","n"," ","g","(",")"," ","{"," ",
      "}"," ","i","m","p","o","r","t"," ","a",";">>

\* fn f() { return if 1 == 1 { 1 } else { 2 }; } import a;
SrcIfValueSame ==
    <<"f","n"," ","f","(",")"," ","{"," ","r","e","t","u","r","n"," ","i",
      "f"," ","1"," ","=","="," ","1"," ","{"," ","1"," ","}"," ","e","l",
      "s","e"," ","{"," ","2"," ","}",";"," ","}"," ","i","m","p","o","r",
      "t"," ","a",";">>

\* fn f() { return if 1 == 1 { 1 } else { true }; } import a;
SrcIfValueDiffer ==
    <<"f","n"," ","f","(",")"," ","{"," ","r","e","t","u","r","n"," ","i",
      "f"," ","1"," ","=","="," ","1"," ","{"," ","1"," ","}"," ","e","l",
      "s","e"," ","{"," ","t","r","u","e"," ","}",";"," ","}"," ","i","m",
      "p","o","r","t"," ","a",";">>

\* fn f() { return if 1 == 1 { 1 } else { [2] }; } import a;
SrcIfValueElseUnknown ==
    <<"f","n"," ","f","(",")"," ","{"," ","r","e","t","u","r","n"," ","i",
      "f"," ","1"," ","=","="," ","1"," ","{"," ","1"," ","}"," ","e","l",
      "s","e"," ","{"," ","[","2","]"," ","}",";"," ","}"," ","i","m","p",
      "o","r","t"," ","a",";">>

\* fn f() { return if 1 == 1 { [1] } else { 2 }; } import a;
SrcIfValueThenUnknown ==
    <<"f","n"," ","f","(",")"," ","{"," ","r","e","t","u","r","n"," ","i",
      "f"," ","1"," ","=","="," ","1"," ","{"," ","[","1","]"," ","}"," ",
      "e","l","s","e"," ","{"," ","2"," ","}",";"," ","}"," ","i","m","p",
      "o","r","t"," ","a",";">>

\* fn f() { return if 1 == 1 { 1 }; } import a;
SrcIfValueNoElse ==
    <<"f","n"," ","f","(",")"," ","{"," ","r","e","t","u","r","n"," ","i",
      "f"," ","1"," ","=","="," ","1"," ","{"," ","1"," ","}",";"," ","}",
      " ","i","m","p","o","r","t"," ","a",";">>

\* fn f() { return if 1 == 1 { } else { 1 }; } import a;
SrcIfValueEmptyThen ==
    <<"f","n"," ","f","(",")"," ","{"," ","r","e","t","u","r","n"," ","i",
      "f"," ","1"," ","=","="," ","1"," ","{"," ","}"," ","e","l","s","e",
      " ","{"," ","1"," ","}",";"," ","}"," ","i","m","p","o","r","t"," ",
      "a",";">>

\* fn f() { return if 1 == 1 { let y = 1; } else { }; } import a;
SrcIfValueUnits ==
    <<"f","n"," ","f","(",")"," ","{"," ","r","e","t","u","r","n"," ","i",
      "f"," ","1"," ","=","="," ","1"," ","{"," ","l","e","t"," ","y"," ",
      "="," ","1",";"," ","}"," ","e","l","s","e"," ","{"," ","}",";"," ",
      "}"," ","i","m","p","o","r","t"," ","a",";">>

\* fn f() { return { let y = 1; true }; } import a;
SrcBlockValue ==
    <<"f","n"," ","f","(",")"," ","{"," ","r","e","t","u","r","n"," ","{",
      " ","l","e","t"," ","y"," ","="," ","1",";"," ","t","r","u","e"," ",
      "}",";"," ","}"," ","i","m","p","o","r","t"," ","a",";">>

\* fn f() { return { let y = 1; }; } import a;
SrcBlockValueNone ==
    <<"f","n"," ","f","(",")"," ","{"," ","r","e","t","u","r","n"," ","{",
      " ","l","e","t"," ","y"," ","="," ","1",";"," ","}",";"," ","}"," ",
      "i","m","p","o","r","t"," ","a",";">>

\* fn f() -> i32 { return { 1 }; } import a;
SrcBlockValueDeclared ==
    <<"f","n"," ","f","(",")"," ","-",">"," ","i","3","2"," ","{"," ","r",
      "e","t","u","r","n"," ","{"," ","1"," ","}",";"," ","}"," ","i","m",
      "p","o","r","t"," ","a",";">>

\* fn f(x: i32) -> i32 { match 1 { _ => x, S(_, 2) => f(1, [x]) } } import a;
SrcMatchWildcard ==
    <<"f","n"," ","f","(","x",":"," ","i","3","2",")"," ","-",">"," ","i",
      "3","2"," ","{"," ","m","a","t","c","h"," ","1"," ","{"," ","_"," ",
      "=",">"," ","x",","," ","S","(","_",","," ","2",")"," ","=",">"," ",
      "f","(","1",","," ","[","x","]",")"," ","}"," ","}"," ","i","m","p",
      "o","r","t"," ","a",";">>

\* struct P { x: i32, y: (i32, bool) } enum E { A, B(i32) } trait T { fn m(); } import a::b;
SrcStructEnum ==
    <<"s","t","r","u","c","t"," ","P"," ","{"," ","x",":"," ","i","3","2",
      ","," ","y",":"," ","(","i","3","2",","," ","b","o","o","l",")"," ",
      "}"," ","e","n","u","m"," ","E"," ","{"," ","A",","," ","B","(","i",
      "3","2",")"," ","}"," ","t","r","a","i","t"," ","T"," ","{"," ","f",
      "n"," ","m","(",")",";"," ","}"," ","i","m","p","o","r","t"," ","a",
      ":",":","b",";">>

TypingPrograms ==
    {SrcForShadowParam,
     SrcArithInts,
     SrcArithBool,
     SrcArithUnknownRight,
     SrcArithUnknownLeft,
     SrcArithFloatInt,
     SrcArithParams,
     SrcWhileInt,
     SrcWhileUnknown,
     SrcWhileBool,
     SrcIfInt,
     SrcIfUnknown,
     SrcIfBool,
     SrcCallUnknownCallee,
     SrcUndefinedArg,
     SrcUndefinedElem,
     SrcUndefinedReceiver,
     SrcDefinedArg,
     SrcAsyncFn,
     SrcPubAsyncFn,
     SrcPubFn,
     SrcLetItem,
     SrcPubLetItem,
     SrcLetUnknownInit,
     SrcLetKnownInit,
     SrcLetBoolInit,
     SrcLetCallInit,
     SrcImplUndefined,
     SrcIfValueSame,
     SrcIfValueDiffer,
     SrcIfValueElseUnknown,
     SrcIfValueThenUnknown,
     SrcIfValueNoElse,
     SrcIfValueEmptyThen,
     SrcIfValueUnits,
     SrcBlockValue,
     SrcBlockValueNone,
     SrcBlockValueDeclared,
     SrcMatchWildcard,
     SrcStructEnum}

Sources ==
    Corpus \cup Programs \cup FunctionSources \cup TypingPrograms
    \cup UNION {[1..n -> Alphabet] : n \in 0..MaxSrcLen}

----------------------------------------------------------------------------
(* Lexer::next_token, one call per step, driven by the loop of tokenize    *)

next_token ==
    /\ stage = "lex"
    /\ LET before_skip == position
           start == skip_whitespace_and_comments(source, position)
           had_newline == contains(source, before_skip, start, "\n")
           ch == current_char(source, start)
           lexed == lex_token(source, start)
       IN IF ch = NoChar
          THEN IF should_insert_semicolon_before_eof(last_token)
               THEN /\ last_token' = "Semicolon"
                    /\ pending_semicolon' = TRUE
                    /\ tokens' = Append(tokens, Token("Semicolon", "", start, start))
                    /\ position' = start
                    /\ UNCHANGED <<stage, error>>
               ELSE /\ tokens' = Append(tokens, Token("Eof", "", start, start))
                    /\ position' = start
                    /\ stage' = "parse"
                    /\ UNCHANGED <<last_token, pending_semicolon, error>>
          ELSE IF /\ had_newline
                  /\ ~pending_semicolon
                  /\ should_insert_semicolon_before(last_token, ch)
               THEN /\ last_token' = "Semicolon"
                    /\ pending_semicolon' = TRUE
                    /\ tokens' = Append(tokens, Token("Semicolon", "", start, start))
                    /\ position' = start
                    /\ UNCHANGED <<stage, error>>
               ELSE IF lexed.err # None
                    THEN /\ pending_semicolon' = FALSE
                         /\ position' = lexed.pos
                         /\ stage' = "lex_error"
                         /\ error' = Error(lexed.err, Span(start, lexed.pos))
                         /\ UNCHANGED <<last_token, tokens>>
                    ELSE /\ pending_semicolon' = FALSE
                         /\ position' = lexed.pos
                         /\ last_token' = lexed.kind
                         /\ tokens' = Append(tokens, Token(lexed.kind, lexed.text, start, lexed.pos))
                         /\ UNCHANGED <<stage, error>>
    /\ UNCHANGED <<source, ast, checker_vars, ir>>

\* CodeGen::new(file stem of the input path)
ModuleName == "module"

\* the parsing phase with the parser's error recorded and the driver going on
Parse_past_error ==
    /\ stage = "parse"
    /\ LET parsed == Parser("parse_module", <<tokens>>)
       IN /\ ast' = IF parsed.ok THEN parsed.node ELSE [items |-> <<>>]
          /\ symbols' = new_symbol_table
          /\ stage' = "collect"
          /\ error' = parsed.err
    /\ UNCHANGED <<lexer_vars, current_function_return, item_index, log, ir>>

\* the driver's parsing phase: Parser::new(tokens).parse_module(), and on
\* success TypeChecker::new()
Parse ==
    /\ stage = "parse"
    /\ LET parsed == Parser("parse_module", <<tokens>>)
       IN IF parsed.ok
          THEN /\ ast' = parsed.node
               /\ symbols' = new_symbol_table
               /\ stage' = "collect"
               /\ UNCHANGED error
          ELSE /\ error' = parsed.err
               /\ stage' = "parse_error"
               /\ UNCHANGED <<ast, symbols>>
    /\ UNCHANGED <<lexer_vars, current_function_return, item_index, log, ir>>

\* the checker state as the operators thread it, with an empty history
Ctx ==
    [scopes |-> symbols, current_function_return |-> current_function_return,
     log |-> <<>>]

\* the events of one loop iteration, tagged with the pass and the item
Tagged(events, pass) ==
    [k \in 1..Len(events) |->
        [pass |-> pass, item |-> item_index + 1, event |-> events[k]]]

\* check_module, first loop: one iteration, or the loop's exit
CollectItem ==
    /\ stage = "collect"
    /\ IF item_index < Len(ast.items)
       THEN LET r == collect_item(Ctx, ast.items[item_index + 1])
            IN /\ symbols' = r.ctx.scopes
               /\ current_function_return' = r.ctx.current_function_return
               /\ log' = log \o Tagged(r.ctx.log, 1)
               /\ IF r.err = NoError
                  THEN /\ item_index' = item_index + 1
                       /\ UNCHANGED <<stage, error>>
                  ELSE /\ error' = r.err
                       /\ stage' = "semantic_error"
                       /\ UNCHANGED item_index
       ELSE /\ item_index' = 0
            /\ stage' = "check"
            /\ UNCHANGED <<symbols, current_function_return, log, error>>
    /\ UNCHANGED <<lexer_vars, ast, ir>>

\* check_module, second loop: one iteration, or the loop's exit
CheckItem ==
    /\ stage = "check"
    /\ IF item_index < Len(ast.items)
       THEN LET r == TypeChecker("check_item", <<Ctx, ast.items[item_index + 1]>>)
            IN /\ symbols' = r.ctx.scopes
               /\ current_function_return' = r.ctx.current_function_return
               /\ log' = log \o Tagged(r.ctx.log, 2)
               /\ IF r.err = NoError
                  THEN /\ item_index' = item_index + 1
                       /\ UNCHANGED <<stage, error>>
                  ELSE /\ error' = r.err
                       /\ stage' = "semantic_error"
                       /\ UNCHANGED item_index
       ELSE /\ stage' = "codegen"
            /\ UNCHANGED <<checker_vars, error>>
    /\ UNCHANGED <<lexer_vars, ast, ir>>

\* the driver's last phase: CodeGen::new(name).generate_module(&ast)
Generate ==
    /\ stage = "codegen"
    /\ ir' = generate_module(ModuleName, ast)
    /\ stage' = "done"
    /\ UNCHANGED <<lexer_vars, ast, checker_vars, error>>

Init ==
    /\ source \in Sources
    /\ position = 0
    /\ last_token = None
    /\ pending_semicolon = FALSE
    /\ tokens = <<>>
    /\ ast = Nil
    /\ symbols = <<>>
    /\ current_function_return = NoneOpt
    /\ item_index = 0
    /\ log = <<>>
    /\ ir = <<>>
    /\ stage = "lex"
    /\ error = NoError

Next ==
    \/ next_token
    \/ Parse
    \/ CollectItem
    \/ CheckItem
    \/ Generate

Spec == Init /\ [][Next]_vars

----------------------------------------------------------------------------
(* Properties of the lexer and the parser                                  *)

\* A terminator the lexer inserted: a Semicolon token of width zero (an
\* explicit `;` spans one character).
IsSynthetic(tok) == tok.kind = "Semicolon" /\ tok.span.start = tok.span.end

IsTerminator(tok) == tok.kind = "Semicolon"

\* The token kinds that can end a statement, as section 4.1 lists them.
StatementEnders ==
    {"Ident", "Integer", "Float", "String", "Char", "True", "False",
     "Return", "Break", "Continue", "RightParen", "RightBracket", "RightBrace"}

\* tokenize() has returned Ok
Tokenized == stage \notin {"lex", "lex_error"}

\* parse_module has returned Ok
Parsed == stage \in {"collect", "check", "codegen", "done", "semantic_error"}

\* the token sequence without its i-th token
WithoutToken(toks, i) == SubSeq(toks, 1, i - 1) \o SubSeq(toks, i + 1, Len(toks))

\* C1: lexing and then parsing `fn main() { }` returns no lexer or parser
\* error, and the module has exactly one item, a function named main.
C1_MainParses ==
    source = SrcFnMain =>
        /\ stage \notin {"lex_error", "parse_error"}
        /\ Parsed => /\ Len(ast.items) = 1
                     /\ ast.items[1].item = "Function"
                     /\ ast.items[1].name.value = "main"

\* C2: a synthetic terminator inserted after a closing `}` never by itself
\* makes parse_module fail: the parser never stops at such a token when the
\* same tokens without it parse.
C2_SyntheticTerminatorAccepted ==
    stage = "parse_error" =>
        LET failed == Parser("parse_module", <<tokens>>)
            at == failed.pos + 1
        IN ~ /\ at > 1
             /\ IsSynthetic(tokens[at])
             /\ tokens[at - 1].kind = "RightBrace"
             /\ Parser("parse_module", <<WithoutToken(tokens, at)>>).ok

\* C3: before a real token the lexer emits a synthetic terminator if and
\* only if the text skipped since the previously emitted token contains a
\* newline and that token is one of the statement enders; the kind of the
\* next token plays no part, and a `;` as the previous token never triggers.
C3_InsertionBeforeToken ==
    \A i \in 1..Len(tokens) :
        (tokens[i].kind # "Eof" /\ ~IsSynthetic(tokens[i])) =>
            LET inserted == i > 1 /\ IsSynthetic(tokens[i - 1])
                prev == IF inserted THEN i - 2 ELSE i - 1
                gap_start == IF prev = 0 THEN 0 ELSE tokens[prev].span.end
                newline == \E k \in (gap_start + 1)..tokens[i].span.start :
                               source[k] = "\n"
            IN inserted <=> /\ newline
                            /\ prev > 0
                            /\ tokens[prev].kind \in StatementEnders

\* a terminator inserted across a newline although the next token, an
\* operator, continues the expression
C3_Witness ==
    \E i \in 3..Len(tokens) :
        /\ tokens[i].kind = "Plus"
        /\ IsSynthetic(tokens[i - 1])
        /\ tokens[i - 2].kind = "Ident"

\* C4: when tokenize returns, Eof is preceded by exactly one synthetic
\* terminator if the last token emitted before it is a statement ender, and
\* by none if that token is anything else (a keyword, an operator, an
\* explicit `;`) or there is no token at all.
C4_InsertionBeforeEof ==
    Tokenized =>
        LET n == Len(tokens)
            inserted == n > 1 /\ IsSynthetic(tokens[n - 1])
            prev == IF inserted THEN n - 2 ELSE n - 1
        IN /\ tokens[n].kind = "Eof"
           /\ \A i \in 1..(n - 1) : tokens[i].kind # "Eof"
           /\ inserted <=> (prev > 0 /\ tokens[prev].kind \in StatementEnders)

C4_Witness ==
    /\ Tokenized
    /\ Len(tokens) = 3
    /\ tokens[1].kind = "Ident"
    /\ IsSynthetic(tokens[2])
    /\ \A k \in 1..Len(source) : source[k] # "\n"

\* Two tokens of the sequence that are not terminators, with nothing but
\* terminators between them, the first a statement ender, and a newline in
\* the source text between them.
AdjacentAcrossNewline(i, j) ==
    /\ i < j
    /\ ~IsTerminator(tokens[i])
    /\ ~IsTerminator(tokens[j])
    /\ \A k \in (i + 1)..(j - 1) : IsTerminator(tokens[k])
    /\ tokens[i].kind \in StatementEnders
    /\ \E k \in (tokens[i].span.end + 1)..tokens[j].span.start : source[k] = "\n"

----------------------------------------------------------------------------
(* Properties of the semantic analyzer and the code generator              *)

\* Compatible types: equal, or either side Unknown.
Compatible(a, b) == a = b \/ a = Unknown \/ b = Unknown

\* A function's declared return type, unit when none is declared.
DeclaredReturn(func) ==
    IF func.return_type = NoneOpt THEN Primitive("Unit")
    ELSE resolve_type_helper(func.return_type[1])

FunctionItems == {i \in 1..Len(ast.items) : ast.items[i].item = "Function"}

\* the history entries of one kind of event
Events(ev) == {k \in 1..Len(log) : log[k].event.ev = ev}

\* C6: for a module with a function main that declares no return type, the
\* generated text contains `define i32 @main(` and the instruction
\* `ret i32 0`.
C6_MainDefinedAsI32 ==
    (/\ stage = "done"
     /\ \E i \in FunctionItems : /\ ast.items[i].name.value = "main"
                                 /\ ast.items[i].return_type = NoneOpt)
    => /\ \E k \in 1..Len(ir) : ir[k] = "define i32 @main("
       /\ \E k \in 1..Len(ir) : ir[k] = "  ret i32 0\n"

\* C7: no function whose body has a trailing expression of a type
\* incompatible with the declared return type passes check_function.
C7_TrailingExpressionChecked ==
    \A k \in Events("body") :
        LET func == ast.items[log[k].item]
        IN func.body.expr # NoneOpt =>
               Compatible(log[k].event.ty, DeclaredReturn(func))

\* C8: every return statement the checker reaches is rejected if and only if
\* the type of its value (unit for a bare return) is not compatible with the
\* declared return type of the function being checked, and the rejection is
\* the TypeMismatch that check_module returns.
C8_ReturnChecked ==
    \A k \in Events("return") :
        LET declared == DeclaredReturn(ast.items[log[k].item])
        IN /\ log[k].pass = 2
           /\ log[k].event.mismatch <=> ~Compatible(log[k].event.found, declared)
           /\ log[k].event.mismatch =>
                  /\ k = Len(log)
                  /\ stage = "semantic_error"
                  /\ error.kind = "TypeMismatch"

\* a return of an Unknown value accepted in a function declared -> i32, then
\* a return of a bool rejected in the same function
C8_Witness ==
    /\ stage = "semantic_error"
    /\ error.kind = "TypeMismatch"
    /\ \E k, m \in Events("return") :
           /\ k < m
           /\ log[k].item = log[m].item
           /\ DeclaredReturn(ast.items[log[k].item]) = Primitive("I32")
           /\ log[k].event.found = Unknown
           /\ ~log[k].event.mismatch
           /\ log[m].event.found = Primitive("Bool")
           /\ log[m].event.mismatch

\* the symbol pass 1 enters for a function item
Signature(func) ==
    FunctionSymbol([i \in 1..Len(func.params) |-> resolve_type_helper(func.params[i].ty)],
                   DeclaredReturn(func), func.name.span)

SignaturesIn(scope) ==
    \A i \in FunctionItems :
        /\ ast.items[i].name.value \in DOMAIN scope
        /\ scope[ast.items[i].name.value] = Signature(ast.items[i])

\* C9: the signature of every top-level function is in the outermost scope
\* whenever pass 2 runs, pass 1 does nothing but define item names in the
\* outermost scope, and so no reference to a top-level function, before or
\* after its definition, is reported as undefined.
C9_TwoPasses ==
    /\ stage = "check" => SignaturesIn(symbols[1])
    /\ \A k \in 1..Len(log) :
           /\ log[k].pass = 2 /\ log[k].event.ev = "define" =>
                  SignaturesIn(log[k].event.before[1])
           /\ log[k].pass = 1 =>
                  /\ log[k].event.ev = "define"
                  /\ Len(log[k].event.before) = 1
                  /\ log[k].event.name = ast.items[log[k].item].name.value
    /\ stage = "collect" => Len(symbols) = 1 /\ current_function_return = NoneOpt
    /\ \A k \in Events("undefined") :
           \A i \in FunctionItems : ast.items[i].name.value # log[k].event.name

\* a body that calls a function defined later in the module has been checked
C9_Witness ==
    /\ stage = "done"
    /\ \E k \in Events("body") :
           LET func == ast.items[log[k].item]
           IN /\ Len(func.body.stmts) > 0
              /\ func.body.stmts[1].stmt = "Expr"
              /\ func.body.stmts[1].expr.kind = "Call"
              /\ \E j \in FunctionItems :
                     /\ j > log[k].item
                     /\ ast.items[j].name.value = func.body.stmts[1].expr.func.name

\* C10: define fails exactly when the name is already in the innermost
\* scope; a failed define changes no scope and check_module returns it as a
\* SemanticError; a successful define adds the name to the innermost scope
\* and changes no existing binding.
C10_DefineRejectsDuplicates ==
    \A k \in Events("define") :
        LET e == log[k].event
            top == Len(e.before)
        IN /\ top >= 1
           /\ e.ok <=> e.name \notin DOMAIN e.before[top]
           /\ ~e.ok => /\ e.after = e.before
                       /\ k = Len(log)
                       /\ stage = "semantic_error"
                       /\ error.kind = "SemanticError"
           /\ e.ok => /\ Len(e.after) = top
                      /\ \A s \in 1..(top - 1) : e.after[s] = e.before[s]
                      /\ DOMAIN e.after[top] = DOMAIN e.before[top] \cup {e.name}
                      /\ \A n \in DOMAIN e.before[top] :
                             e.after[top][n] = e.before[top][n]

\* a name of an enclosing scope defined again in an inner scope, then
\* rejected when defined a second time in that inner scope
C10_Witness ==
    /\ stage = "semantic_error"
    /\ \E k, m \in Events("define") :
           /\ k < m
           /\ log[k].event.name = log[m].event.name
           /\ log[k].event.ok
           /\ \E s \in 1..(Len(log[k].event.before) - 1) :
                  log[k].event.name \in DOMAIN log[k].event.before[s]
           /\ ~log[m].event.ok

----------------------------------------------------------------------------
(* Properties of the scope discipline                                      *)

\* the names bound anywhere in a scope stack
NamesIn(scopes) == UNION {DOMAIN scopes[i] : i \in 1..Len(scopes)}

\* the scopes a construct opened and still held when it reached its exit
Opened(e) == SubSeq(e.inner, Len(e.before) + 1, Len(e.inner))

\* C11: after a block, a `for` statement or a function body has been checked
\* successfully, lookup returns no symbol defined in the scopes the construct
\* opened, and for every name it returns what it returned before the
\* construct was entered.
C11_ScopeIsolation ==
    \A k \in Events("scope") :
        LET e == log[k].event
        IN /\ \A n \in NamesIn(e.before) \cup NamesIn(e.inner) :
                  lookup(e.after, n) = lookup(e.before, n)
           /\ \A i \in 1..Len(Opened(e)) : \A n \in DOMAIN Opened(e)[i] :
                  lookup(e.after, n) # Some(Opened(e)[i][n])

\* a `for` statement was checked whose loop variable shadowed a binding of an
\* enclosing scope, and a block was checked that defined a name of its own
C11_Witness ==
    /\ \E k \in Events("scope") :
          /\ log[k].event.construct = "for"
          /\ \E n \in DOMAIN Opened(log[k].event)[1] :
                lookup(log[k].event.before, n) # NoneOpt
    /\ \E k \in Events("scope") :
          /\ log[k].event.construct = "block"
          /\ DOMAIN Opened(log[k].event)[1] # {}

----------------------------------------------------------------------------
(* The symbol table driven through its public methods, in any order        *)

MaxDepth == 3

TableNames == {"i32", "x"}

TableSymbols ==
    {VariableSymbol(Primitive("Bool"), FALSE, Span(1, 2)), TypeSymbol("Enum", Span(3, 4))}

\* the last call made on the table and what it returned
Called(event) == <<[pass |-> 0, item |-> 0, event |-> event]>>

\* SymbolTable::enter_scope
EnterScope ==
    /\ stage = "table"
    /\ Len(symbols) < MaxDepth
    /\ symbols' = enter_scope(symbols)
    /\ log' = Called([ev |-> "enter_scope", depth |-> Len(symbols)])
    /\ UNCHANGED <<lexer_vars, ast, current_function_return, item_index, ir, stage, error>>

\* SymbolTable::exit_scope
ExitScope ==
    /\ stage = "table"
    /\ symbols' = exit_scope(symbols)
    /\ log' = Called([ev |-> "exit_scope", depth |-> Len(symbols)])
    /\ UNCHANGED <<lexer_vars, ast, current_function_return, item_index, ir, stage, error>>

\* SymbolTable::define
Define ==
    /\ stage = "table"
    /\ \E name \in TableNames, symbol \in TableSymbols :
          LET d == define(symbols, name, symbol)
          IN /\ symbols' = d.scopes
             /\ log' = Called([ev |-> "define", name |-> name, ok |-> d.ok])
    /\ UNCHANGED <<lexer_vars, ast, current_function_return, item_index, ir, stage, error>>

\* SymbolTable::lookup
Lookup ==
    /\ stage = "table"
    /\ \E name \in TableNames \cup {"print", "y"} :
          log' = Called([ev |-> "lookup", name |-> name, found |-> lookup(symbols, name)])
    /\ UNCHANGED <<lexer_vars, ast, symbols, current_function_return, item_index, ir,
                   stage, error>>

\* SymbolTable::new
TableInit ==
    /\ source = <<>>
    /\ position = 0
    /\ last_token = None
    /\ pending_semicolon = FALSE
    /\ tokens = <<>>
    /\ ast = Nil
    /\ symbols = new_symbol_table
    /\ current_function_return = NoneOpt
    /\ item_index = 0
    /\ log = <<>>
    /\ ir = <<>>
    /\ stage = "table"
    /\ error = NoError

\* the table on its own, or inside the checker of the pipeline
SymbolTableInit == Init \/ TableInit

SymbolTableNext ==
    \/ Next
    \/ EnterScope
    \/ ExitScope
    \/ Define
    \/ Lookup

SymbolTableSpec == SymbolTableInit /\ [][SymbolTableNext]_vars

\* C12: whatever the order of enter_scope, exit_scope, define and lookup
\* calls, the scope stack holds at least one scope and every built-in name
\* (the 13 primitive type names, print, println) resolves; after a successful
\* check_module the stack depth is 1.
C12_OutermostScopeKept ==
    /\ stage = "table" =>
          /\ Len(symbols) >= 1
          /\ \A n \in BuiltinTypeNames \cup {"print", "println"} :
                lookup(symbols, n) # NoneOpt
    /\ stage \in {"codegen", "done"} => Len(symbols) = 1

\* exit_scope was just called on a table of depth 1 whose only scope holds,
\* besides the built-ins, a name defined through define
C12_Witness ==
    /\ stage = "table"
    /\ log # <<>>
    /\ log[1].event.ev = "exit_scope"
    /\ log[1].event.depth = 1
    /\ Len(symbols) = 1
    /\ "x" \in DOMAIN symbols[1]

----------------------------------------------------------------------------
(* Properties of the typing rules                                          *)

\* the ten integer and float primitives
NumericTypes ==
    {Primitive(p) : p \in {"I8", "I16", "I32", "I64", "U8", "U16", "U32", "U64",
                           "F32", "F64"}}

ArithmeticOps == {"Add", "Sub", "Mul", "Div", "Rem"}

\* C13: a binary + - * / % expression is accepted if and only if both operand
\* types are numeric and mutually compatible, its type is then the left
\* operand's type, and in every other case the checker reports TypeMismatch.
C13_ArithmeticChecked ==
    \A k \in Events("binary") :
        LET e == log[k].event
        IN e.op \in ArithmeticOps =>
             /\ e.err = NoError <=>
                   /\ e.left \in NumericTypes
                   /\ e.right \in NumericTypes
                   /\ Compatible(e.left, e.right)
             /\ e.err = NoError => e.ty = e.left
             /\ e.err # NoError => e.err.kind = "TypeMismatch"

\* C14: `while cond` and `if cond` are accepted only when the type of cond is
\* exactly bool; any other condition type, Unknown included, yields
\* TypeMismatch with the span of the condition expression, and nothing of the
\* body is checked: the test of the condition is the last thing the checker
\* did.
C14_ConditionIsBool ==
    \A k \in Events("condition") :
        LET e == log[k].event
        IN e.ty # Primitive("Bool") =>
             /\ k = Len(log)
             /\ stage = "semantic_error"
             /\ error = Error("TypeMismatch", e.span)

\* a `while` whose condition has type Unknown and whose body holds a statement
\* was rejected at its condition
C14_Witness ==
    /\ stage = "semantic_error"
    /\ log # <<>>
    /\ log[Len(log)].event.ev = "condition"
    /\ log[Len(log)].event.construct = "while"
    /\ log[Len(log)].event.ty = Unknown
    /\ ast.items[1].body.stmts[1].stmt = "While"
    /\ ast.items[1].body.stmts[1].body.stmts # <<>>
    /\ error.span = ast.items[1].body.stmts[1].condition.span

\* C15: a call whose callee has a function type has that function's return
\* type; a callee of a known type that is not a function type is rejected
\* with an error; a callee of type Unknown passes, and the call has type
\* Unknown.
C15_CalleeChecked ==
    \A k \in Events("call") :
        LET e == log[k].event
        IN CASE e.callee.t = "Function" ->
                  e.err = NoError /\ e.ty = e.callee.return_type
             [] e.callee.t = "Unknown" -> e.err = NoError /\ e.ty = Unknown
             [] OTHER -> e.err # NoError

\* The identifier expressions of an expression, a block or a statement list,
\* as far as they sit in operands, conditions, call arguments, method-call
\* receivers and arguments, field and index operands, tuple and array
\* elements, match scrutinees and nested blocks.
RECURSIVE IdentsOfExpr(_), IdentsOfExprs(_), IdentsOfBlock(_), IdentsOfStmt(_)
IdentsOfExpr(expr) ==
    LET k == expr.kind IN
    CASE k = "Ident" -> {expr.name}
      [] k = "Binary" -> IdentsOfExpr(expr.left) \cup IdentsOfExpr(expr.right)
      [] k \in {"Unary", "Try", "Cast", "Is", "Await", "Field"} -> IdentsOfExpr(expr.expr)
      [] k = "Call" -> IdentsOfExpr(expr.func) \cup IdentsOfExprs(expr.args)
      [] k = "MethodCall" -> IdentsOfExpr(expr.receiver) \cup IdentsOfExprs(expr.args)
      [] k = "Index" -> IdentsOfExpr(expr.expr) \cup IdentsOfExpr(expr.index)
      [] k \in {"Tuple", "Array"} -> IdentsOfExprs(expr.elems)
      [] k = "Block" -> IdentsOfBlock(expr.block)
      [] k = "If" ->
           IdentsOfExpr(expr.condition) \cup IdentsOfBlock(expr.then_block)
           \cup UNION {IdentsOfBlock(expr.else_block[i]) : i \in 1..Len(expr.else_block)}
      [] k = "Match" -> IdentsOfExpr(expr.expr)
      [] OTHER -> {}

IdentsOfExprs(exprs) == UNION {IdentsOfExpr(exprs[i]) : i \in 1..Len(exprs)}

IdentsOfBlock(block) ==
    UNION {IdentsOfStmt(block.stmts[i]) : i \in 1..Len(block.stmts)}
    \cup IdentsOfExprs(block.expr)

IdentsOfStmt(stmt) ==
    LET k == stmt.stmt IN
    CASE k \in {"Let", "Return"} -> IdentsOfExprs(stmt.value)
      [] k = "Expr" -> IdentsOfExpr(stmt.expr)
      [] k = "While" -> IdentsOfExpr(stmt.condition) \cup IdentsOfBlock(stmt.body)
      [] k = "For" -> IdentsOfExpr(stmt.iter) \cup IdentsOfBlock(stmt.body)
      [] k = "Loop" -> IdentsOfBlock(stmt.body)
      [] OTHER -> {}

\* The names `let` and `for` bind anywhere in a block.
RECURSIVE BoundInBlock(_), BoundInStmt(_)
BoundInBlock(block) == UNION {BoundInStmt(block.stmts[i]) : i \in 1..Len(block.stmts)}

BoundInStmt(stmt) ==
    LET k == stmt.stmt IN
    CASE k = "Let" -> {stmt.name.value}
      [] k = "For" -> {stmt.var.value} \cup BoundInBlock(stmt.body)
      [] k \in {"While", "Loop"} -> BoundInBlock(stmt.body)
      [] OTHER -> {}

\* Every name an identifier of the function could resolve to at all: the
\* built-in functions, the module's functions, the function's parameters and
\* the names its statements bind.
Resolvable(func) ==
    {"print", "println"}
    \cup {ast.items[i].name.value : i \in FunctionItems}
    \cup {func.params[i].name.value : i \in 1..Len(func.params)}
    \cup BoundInBlock(func.body)

\* C16: when check_module succeeds, no identifier expression anywhere in a
\* checked function body resolves to no variable or function: an identifier
\* that does makes check_module fail with a SemanticError.
C16_UndefinedNameRejected ==
    stage \in {"codegen", "done"} =>
        \A i \in FunctionItems :
            IdentsOfBlock(ast.items[i].body) \subseteq Resolvable(ast.items[i])

----------------------------------------------------------------------------
(* Expressions parsed on their own: Parser::new(tokens).parse_expr()       *)

\* the binary operators as the language's precedence table lists them:
\* spelling, operator, level
OperatorTable ==
    {
     [text |-> <<"*">>, op |-> "Mul", level |-> 10],
     [text |-> <<"/">>, op |-> "Div", level |-> 10],
     [text |-> <<"%">>, op |-> "Rem", level |-> 10],
     [text |-> <<"+">>, op |-> "Add", level |-> 9],
     [text |-> <<"-">>, op |-> "Sub", level |-> 9],
     [text |-> <<"<", "<">>, op |-> "Shl", level |-> 8],
     [text |-> <<">", ">">>, op |-> "Shr", level |-> 8],
     [text |-> <<"&">>, op |-> "BitAnd", level |-> 7],
     [text |-> <<"^">>, op |-> "BitXor", level |-> 6],
     [text |-> <<"|">>, op |-> "BitOr", level |-> 5],
     [text |-> <<"=", "=">>, op |-> "Eq", level |-> 4],
     [text |-> <<"!", "=">>, op |-> "Ne", level |-> 4],
     [text |-> <<"<">>, op |-> "Lt", level |-> 4],
     [text |-> <<"<", "=">>, op |-> "Le", level |-> 4],
     [text |-> <<">">>, op |-> "Gt", level |-> 4],
     [text |-> <<">", "=">>, op |-> "Ge", level |-> 4],
     [text |-> <<"&", "&">>, op |-> "And", level |-> 3],
     [text |-> <<"a", "n", "d">>, op |-> "And", level |-> 3],
     [text |-> <<"|", "|">>, op |-> "Or", level |-> 2],
     [text |-> <<"o", "r">>, op |-> "Or", level |-> 2],
     [text |-> <<"=">>, op |-> "Assign", level |-> 1],
     [text |-> <<"+", "=">>, op |-> "AddAssign", level |-> 1],
     [text |-> <<"-", "=">>, op |-> "SubAssign", level |-> 1],
     [text |-> <<"*", "=">>, op |-> "MulAssign", level |-> 1],
     [text |-> <<"/", "=">>, op |-> "DivAssign", level |-> 1],
     [text |-> <<"%", "=">>, op |-> "RemAssign", level |-> 1]
    }

\* the text `a op1 b op2 c`
TwoOperators(op1, op2) ==
    <<"a", " ">> \o op1.text \o <<" ", "b", " ">> \o op2.text \o <<" ", "c">>

\* the text `a op b`
OneOperator(op) == <<"a", " ">> \o op.text \o <<" ", "b">>

SrcRemAssign == <<"a", " ", "%", "=", " ", "b">>

\* ranges: open-ended before each closing token, and with a right-hand operand
SrcRangeParen == <<"(", "1", ".", ".", ")">>
SrcRangeIndex == <<"a", "[", "1", ".", ".", "]">>
SrcRangeBrace == <<"{", " ", "1", ".", ".", " ", "}">>
SrcRangeComma == <<"f", "(", "1", ".", ".", ",", " ", "2", ")">>
SrcRangeSemicolon == <<"1", ".", ".", ";">>
SrcRangeInclusiveIndex == <<"a", "[", "1", ".", ".", "=", "]">>
SrcRangeInclusiveParen == <<"(", "1", ".", ".", "=", ")">>
SrcRangeClosed == <<"1", ".", ".", "2">>
SrcRangeClosedIndex == <<"a", "[", "1", ".", ".", "2", "]">>
SrcRangeClosedInclusive == <<"1", ".", ".", "=", "2">>

RangeSources ==
    {SrcRangeParen, SrcRangeIndex, SrcRangeBrace, SrcRangeComma, SrcRangeSemicolon,
     SrcRangeInclusiveIndex, SrcRangeInclusiveParen, SrcRangeClosed,
     SrcRangeClosedIndex, SrcRangeClosedInclusive}

\* blocks that end in an expression, with and without a terminator
SrcBlockTrailingIdent == <<"{", " ", "a", ";", " ", "b", " ", "}">>
SrcBlockTerminated == <<"{", " ", "a", ";", " ", "b", ";", " ", "}">>
SrcBlockTrailingCall == <<"{", " ", "f", "(", "1", ")", " ", "}">>
SrcBlockTrailingIf ==
    <<"{", " ", "a", ";", " ", "i", "f", " ", "1", " ", "{", " ", "2", " ", "}", " ", "e",
      "l", "s", "e", " ", "{", " ", "3", " ", "}", " ", "}">>
SrcBlockOnlyIf == <<"{", " ", "i", "f", " ", "1", " ", "{", " ", "2", " ", "}", " ", "}">>
SrcBlockTrailingMatch ==
    <<"{", " ", "m", "a", "t", "c", "h", " ", "1", " ", "{", " ", "_", " ", "=", ">", " ",
      "2", " ", "}", " ", "}">>
SrcBlockTrailingBlock == <<"{", " ", "a", ";", " ", "{", " ", "1", " ", "}", " ", "}">>
SrcBlockIfThenExpr ==
    <<"{", " ", "i", "f", " ", "1", " ", "{", " ", "2", " ", "}", " ", "b", " ", "}">>
SrcBlockEmpty == <<"{", " ", "}">>
SrcBlockLetOnly == <<"{", " ", "l", "e", "t", " ", "x", " ", "=", " ", "1", ";", " ", "}">>
SrcBlockWhileLast ==
    <<"{", " ", "w", "h", "i", "l", "e", " ", "1", " ", "{", " ", "}", " ", "}">>

BlockSources ==
    {SrcBlockTrailingIdent, SrcBlockTerminated, SrcBlockTrailingCall,
     SrcBlockTrailingIf, SrcBlockOnlyIf, SrcBlockTrailingMatch,
     SrcBlockTrailingBlock, SrcBlockIfThenExpr, SrcBlockEmpty,
     SrcBlockLetOnly, SrcBlockWhileLast}

\* control-flow forms whose head ends in an identifier, or in another token, right before the body
SrcIfIdent == <<"i", "f", " ", "d", "o", "n", "e", " ", "{", " ", "}">>
SrcIfCompare == <<"i", "f", " ", "a", " ", "<", " ", "b", " ", "{", " ", "c", " ", "}">>
SrcWhileIdent ==
    <<"{", " ", "w", "h", "i", "l", "e", " ", "r", "u", "n", "n", "i", "n", "g", " ", "{",
      " ", "}", " ", "}">>
SrcForIdent ==
    <<"{", " ", "f", "o", "r", " ", "i", " ", "i", "n", " ", "x", "s", " ", "{", " ", "}",
      " ", "}">>
SrcIfCall == <<"i", "f", " ", "d", "o", "n", "e", "(", ")", " ", "{", " ", "}">>
SrcWhileLiteral ==
    <<"{", " ", "w", "h", "i", "l", "e", " ", "t", "r", "u", "e", " ", "{", " ", "}", " ",
      "}">>
SrcForRange ==
    <<"{", " ", "f", "o", "r", " ", "i", " ", "i", "n", " ", "1", ".", ".", "2", " ", "{",
      " ", "}", " ", "}">>

ControlSources ==
    {SrcIfIdent, SrcIfCompare, SrcWhileIdent,
     SrcForIdent, SrcIfCall, SrcWhileLiteral,
     SrcForRange}

\* expressions with children of every kind
SrcTuple == <<"(", "a", ",", " ", "b", " ", "+", " ", "c", ")">>
SrcParenProduct == <<"(", "a", " ", "+", " ", "b", ")", " ", "*", " ", "c">>
SrcNegation == <<"-", "a", " ", "+", " ", "!", "b">>
SrcPostfix == <<"f", "(", "a", ")", "[", "1", "]", ".", "x">>
SrcMethodCall == <<"a", ".", "m", "(", "b", ",", " ", "c", ")">>
SrcArray == <<"[", "a", ",", " ", "b", "]">>
SrcLambda == <<"|", "x", "|", " ", "x", " ", "+", " ", "1">>
SrcStructLit == <<"P", " ", "{", " ", "x", ":", " ", "a", " ", "+", " ", "1", " ", "}">>
SrcMatchArms ==
    <<"m", "a", "t", "c", "h", " ", "1", " ", "{", " ", "1", " ", "=", ">", " ", "b", ",",
      " ", "_", " ", "i", "f", " ", "c", " ", "=", ">", " ", "d", " ", "}">>
SrcIfElse ==
    <<"i", "f", " ", "1", " ", "{", " ", "a", " ", "}", " ", "e", "l", "s", "e", " ", "{",
      " ", "b", " ", "}">>
SrcBlockStmts ==
    <<"{", " ", "l", "e", "t", " ", "x", " ", "=", " ", "a", ";", " ", "w", "h", "i", "l",
      "e", " ", "1", " ", "{", " ", "b", ";", " ", "}", " ", "r", "e", "t", "u", "r", "n",
      " ", "c", ";", " ", "}">>

NestedSources ==
    {SrcTuple, SrcParenProduct, SrcNegation,
     SrcPostfix, SrcMethodCall, SrcArray,
     SrcLambda, SrcStructLit, SrcMatchArms,
     SrcIfElse, SrcBlockStmts}

\* the pattern forms of the language with the shape each one parses to
PatternTable ==
    {
     [text |-> <<"_">>,
      shape |-> "Wildcard"],
     [text |-> <<"x">>,
      shape |-> <<"Ident", "x">>],
     [text |-> <<"7">>,
      shape |-> <<"Literal", "Integer">>],
     [text |-> <<"\"", "s", "\"">>,
      shape |-> <<"Literal", "String">>],
     [text |-> <<"t", "r", "u", "e">>,
      shape |-> <<"Literal", "Bool">>],
     [text |-> <<"f", "a", "l", "s", "e">>,
      shape |-> <<"Literal", "Bool">>],
     [text |-> <<"S", "(", "x", ")">>,
      shape |-> <<"Variant", "S", <<<<"Ident", "x">>>>>>],
     [text |-> <<"N", "(", ")">>,
      shape |-> <<"Variant", "N", <<>>>>],
     [text |-> <<"S", "(", "_", ",", " ", "P", "(", "1", ")", ")">>,
      shape |-> <<"Variant", "S", <<"Wildcard", <<"Variant", "P", <<<<"Literal", "Integer">>>>>>>>>>],
     [text |-> <<"(", "x", ",", " ", "_", ")">>,
      shape |-> <<"Tuple", <<<<"Ident", "x">>, "Wildcard">>>>],
     [text |-> <<"S", "(", "(", "x", ",", " ", "1", ")", ")">>,
      shape |-> <<"Variant", "S", <<<<"Tuple", <<<<"Ident", "x">>, <<"Literal", "Integer">>>>>>>>>>]
    }

\* the text `match 1 { pattern => 2 }`
MatchOn(pattern) == <<"m", "a", "t", "c", "h", " ", "1", " ", "{", " ">> \o pattern \o <<" ", "=", ">", " ", "2", " ", "}">>

PatternSources == {MatchOn(entry.text) : entry \in PatternTable}

ExprSources ==
    {TwoOperators(op1, op2) : op1 \in OperatorTable, op2 \in OperatorTable}
        \cup {OneOperator(op) : op \in OperatorTable}
        \cup RangeSources
        \cup BlockSources
        \cup ControlSources
        \cup NestedSources
        \cup PatternSources

ExprInit ==
    /\ source \in ExprSources
    /\ position = 0
    /\ last_token = None
    /\ pending_semicolon = FALSE
    /\ tokens = <<>>
    /\ ast = Nil
    /\ symbols = <<>>
    /\ current_function_return = NoneOpt
    /\ item_index = 0
    /\ log = <<>>
    /\ ir = <<>>
    /\ stage = "lex"
    /\ error = NoError

\* Parser::parse_expr on the token sequence of the whole text
ParseExpr ==
    /\ stage = "parse"
    /\ LET parsed == Parser("parse_expr", <<tokens, 0>>)
       IN IF parsed.ok
          THEN /\ ast' = parsed.node
               /\ stage' = "parsed"
               /\ UNCHANGED error
          ELSE /\ error' = parsed.err
               /\ stage' = "parse_error"
               /\ UNCHANGED ast
    /\ UNCHANGED <<lexer_vars, checker_vars, ir>>

ExprNext == next_token \/ ParseExpr

ExprSpec == ExprInit /\ [][ExprNext]_vars

----------------------------------------------------------------------------
(* Properties of the expression grammar                                    *)

\* an expression tree without its spans: operators and operand names only
RECURSIVE ShapeOf(_)
ShapeOf(expr) ==
    CASE expr.kind = "Binary" -> <<expr.op, ShapeOf(expr.left), ShapeOf(expr.right)>>
      [] expr.kind = "Ident" -> expr.name
      [] OTHER -> expr.kind

\* the grouping the precedence table gives `a op1 b op2 c`
Grouped(op1, op2) ==
    IF op1.level > op2.level \/ (op1.level = op2.level /\ op1.level # 1)
    THEN <<op2.op, <<op1.op, "a", "b">>, "c">>
    ELSE <<op1.op, "a", <<op2.op, "b", "c">>>>

\* parse_expr has returned
ExprParsed == stage \in {"parsed", "parse_error"}

\* C17: for every pair of binary operators op1, op2 of the precedence table,
\* `a op1 b op2 c` parses to (a op1 b) op2 c when op1 binds tighter than op2 or
\* both are on one left-associative level, and to a op1 (b op2 c) otherwise
C17_PrecedenceClimbing ==
    \A op1, op2 \in OperatorTable :
        ExprParsed /\ source = TwoOperators(op1, op2) =>
            stage = "parsed" /\ ShapeOf(ast) = Grouped(op1, op2)

\* the same grouping rule over the operators that have a token of their own
\* (every operator of the table but `%=`)
LexedOperatorsGrouped ==
    \A op1, op2 \in {o \in OperatorTable : o.op # "RemAssign"} :
        ExprParsed /\ source = TwoOperators(op1, op2) =>
            stage = "parsed" /\ ShapeOf(ast) = Grouped(op1, op2)

\* C18: `a %= b` lexes to identifier, one operator token, identifier, and parses
\* to one binary expression a RemAssign b, an operator of precedence 1 that is
\* right-associative like the other assignment operators
C18_RemAssignParsed ==
    ExprParsed /\ source = SrcRemAssign =>
        /\ [i \in 1..Len(tokens) |-> tokens[i].kind \in {"Ident", "Semicolon", "Eof"}]
               = <<TRUE, FALSE, TRUE, TRUE, TRUE>>
        /\ stage = "parsed"
        /\ ShapeOf(ast) = <<"RemAssign", "a", "b">>
        /\ precedence(ast.op) = 1
        /\ ~is_left_associative(ast.op)

----------------------------------------------------------------------------
(* Properties of the item grammar                                          *)

\* parse_module has returned
ParseReturned == Parsed \/ stage = "parse_error"

\* the index of the first item's leading token, after the optional `pub`
LeadingToken == IF tokens[1].kind = "Pub" THEN 2 ELSE 1

ItemKeywords ==
    {"Fn", "Async", "Struct", "Enum", "Trait", "Impl", "Type", "Const", "Import"}

\* the first item begins with `async fn`
BeginsWithAsyncFn ==
    /\ tokens[LeadingToken].kind = "Async"
    /\ tokens[LeadingToken + 1].kind = "Fn"

\* the first item's leading token is none of the item keywords
BeginsWithOtherToken ==
    /\ tokens[1].kind # "Eof"
    /\ tokens[LeadingToken].kind \notin ItemKeywords

\* parse_item rejected the leading token of the first item
LeadingTokenRejected ==
    /\ stage = "parse_error"
    /\ error = Error("UnexpectedToken", tokens[LeadingToken].span)

\* C19: an item that begins with `async fn`, with or without `pub`, is not
\* rejected at its leading token and parses to a function item whose async flag
\* is set; a leading token that is no item keyword yields UnexpectedToken
C19_ItemKeywords ==
    ParseReturned =>
        /\ BeginsWithAsyncFn =>
              /\ ~LeadingTokenRejected
              /\ Parsed => /\ ast.items[1].item = "Function"
                           /\ ast.items[1].is_async
                           /\ ast.items[1].is_pub = (tokens[1].kind = "Pub")
        /\ BeginsWithOtherToken => LeadingTokenRejected

\* the second half of the rule alone
OtherTokenRejected == ParseReturned /\ BeginsWithOtherToken => LeadingTokenRejected

----------------------------------------------------------------------------
(* Properties of the range form                                            *)

\* the index of the first `..` or `..=` token, 0 when there is none
FirstRangeToken ==
    LET at == {i \in 1..Len(tokens) : tokens[i].kind \in {"DotDot", "DotDotEqual"}}
    IN IF at = {} THEN 0 ELSE CHOOSE i \in at : \A j \in at : i <= j

RangeClosingTokens == {"RightParen", "RightBracket", "RightBrace", "Comma", "Semicolon"}

\* the Range nodes of an expression tree
RECURSIVE RangesOf(_)
RangesOf(expr) ==
    CASE expr.kind = "Range" -> {expr}
      [] expr.kind = "Index" -> RangesOf(expr.expr) \cup RangesOf(expr.index)
      [] expr.kind = "Call" ->
           RangesOf(expr.func) \cup UNION {RangesOf(expr.args[i]) : i \in 1..Len(expr.args)}
      [] expr.kind = "Block" ->
           UNION {RangesOf(expr.block.expr[i]) : i \in 1..Len(expr.block.expr)}
      [] OTHER -> {}

\* C20: after `..` or `..=` the range is open-ended exactly when the next token
\* is `)`, `]`, `}`, `,` or `;`, and has a right-hand operand otherwise; `a[1..]`
\* parses to an index expression whose index is the open-ended range from 1
C20_OpenEndedRange ==
    ExprParsed /\ FirstRangeToken # 0 =>
        /\ stage = "parsed"
        /\ RangesOf(ast) # {}
        /\ \A range \in RangesOf(ast) :
              (range.end = NoneOpt)
                  <=> tokens[FirstRangeToken + 1].kind \in RangeClosingTokens
        /\ source = SrcRangeIndex =>
              /\ ast.kind = "Index"
              /\ ast.index.kind = "Range"
              /\ Len(ast.index.start) = 1
              /\ ast.index.start[1].kind = "Integer"
              /\ ast.index.start[1].value = "1"
              /\ ast.index.end = NoneOpt

\* the same rule with `]` left out of the closing tokens
RangeRuleWithoutBracket ==
    ExprParsed /\ FirstRangeToken # 0
               /\ tokens[FirstRangeToken + 1].kind # "RightBracket" =>
        /\ stage = "parsed"
        /\ RangesOf(ast) # {}
        /\ \A range \in RangesOf(ast) :
              (range.end = NoneOpt)
                  <=> tokens[FirstRangeToken + 1].kind \in RangeClosingTokens

----------------------------------------------------------------------------
(* Properties of blocks                                                    *)

\* parse_expr returned a block expression
BlockParsed == stage = "parsed" /\ ast.kind = "Block"

\* the kind of the token right before the closing brace of the parsed block
BeforeClosingBrace ==
    LET close == CHOOSE i \in 1..Len(tokens) :
                     /\ tokens[i].kind = "RightBrace"
                     /\ tokens[i].span.end = ast.block.span.end
    IN tokens[close - 1].kind

\* the last statement of the parsed block is an expression statement
EndsInExprStmt ==
    /\ ast.block.expr = NoneOpt
    /\ Len(ast.block.stmts) > 0
    /\ ast.block.stmts[Len(ast.block.stmts)].stmt = "Expr"

\* C21: an expression right before a block's closing brace, with no terminator
\* after it, is the block's trailing expression whatever its form; an expression
\* becomes a statement only when it is terminated or something follows it
C21_TrailingExpression ==
    BlockParsed =>
        /\ EndsInExprStmt => BeforeClosingBrace = "Semicolon"
        /\ ast.block.expr # NoneOpt => BeforeClosingBrace # "Semicolon"

\* the same rule for expressions that do not start with `if`, `match` or `{`
TrailingPlainExpression ==
    BlockParsed =>
        /\ (/\ EndsInExprStmt
            /\ ast.block.stmts[Len(ast.block.stmts)].expr.kind \notin {"If", "Match", "Block"})
              => BeforeClosingBrace = "Semicolon"
        /\ ast.block.expr # NoneOpt => BeforeClosingBrace # "Semicolon"

----------------------------------------------------------------------------
(* Properties of the control-flow forms                                    *)

\* the control-flow form parse_expr produced and the shape of its condition or
\* iterator: an `if` expression, or a block holding one `while` or `for`
ControlForm ==
    IF stage # "parsed" THEN <<"None">>
    ELSE IF ast.kind = "If" THEN <<"If", ShapeOf(ast.condition)>>
    ELSE IF ast.kind = "Block" /\ Len(ast.block.stmts) = 1 /\ ast.block.expr = NoneOpt
    THEN LET stmt == ast.block.stmts[1] IN
         CASE stmt.stmt = "While" -> <<"While", ShapeOf(stmt.condition)>>
           [] stmt.stmt = "For" -> <<"For", ShapeOf(stmt.iter)>>
           [] OTHER -> <<"Other">>
    ELSE <<"Other">>

\* C22: `if`, `while` and `for` whose condition or iterator ends in an identifier
\* right before the body's `{` parse as that form, the identifier being the end
\* of the condition or iterator and not the name of a struct literal
C22_IdentifierBeforeBody ==
    ExprParsed =>
        /\ source = SrcIfIdent => ControlForm = <<"If", "done">>
        /\ source = SrcIfCompare => ControlForm = <<"If", <<"Lt", "a", "b">>>>
        /\ source = SrcWhileIdent => ControlForm = <<"While", "running">>
        /\ source = SrcForIdent => ControlForm = <<"For", "xs">>

\* the forms whose head ends in `)`, a literal or a range
OtherTokenBeforeBody ==
    ExprParsed =>
        /\ source = SrcIfCall => ControlForm = <<"If", "Call">>
        /\ source = SrcWhileLiteral => ControlForm = <<"While", "Bool">>
        /\ source = SrcForRange => ControlForm = <<"For", "Range">>

----------------------------------------------------------------------------
(* Properties of the spans                                                 *)

\* a block as a tree node of its own
BlockNode(block) == [kind |-> "BlockBody", span |-> block.span, block |-> block]

Elements(seq) == {seq[i] : i \in 1..Len(seq)}

\* the expressions and blocks directly under a statement
StmtChildren(stmt) ==
    CASE stmt.stmt = "Let" -> Elements(stmt.value)
      [] stmt.stmt = "Return" -> Elements(stmt.value)
      [] stmt.stmt = "While" -> {stmt.condition, BlockNode(stmt.body)}
      [] stmt.stmt = "For" -> {stmt.iter, BlockNode(stmt.body)}
      [] stmt.stmt = "Loop" -> {BlockNode(stmt.body)}
      [] stmt.stmt = "Expr" -> {stmt.expr}
      [] OTHER -> {}

\* the child nodes of an expression or block node
Children(node) ==
    CASE node.kind = "BlockBody" ->
           UNION {StmtChildren(s) : s \in Elements(node.block.stmts)}
               \cup Elements(node.block.expr)
      [] node.kind = "Block" -> {BlockNode(node.block)}
      [] node.kind = "If" ->
           {node.condition, BlockNode(node.then_block)}
               \cup {BlockNode(b) : b \in Elements(node.else_block)}
      [] node.kind = "Match" ->
           {node.expr} \cup {arm.body : arm \in Elements(node.arms)}
               \cup UNION {Elements(arm.guard) : arm \in Elements(node.arms)}
      [] node.kind = "Binary" -> {node.left, node.right}
      [] node.kind \in {"Unary", "Field", "Try", "Cast", "Is", "Await"} -> {node.expr}
      [] node.kind = "Call" -> {node.func} \cup Elements(node.args)
      [] node.kind = "Index" -> {node.expr, node.index}
      [] node.kind = "MethodCall" -> {node.receiver} \cup Elements(node.args)
      [] node.kind = "Range" -> Elements(node.start) \cup Elements(node.end)
      [] node.kind \in {"Tuple", "Array"} -> Elements(node.elems)
      [] node.kind = "Lambda" -> {node.body}
      [] node.kind = "StructLit" -> {field.value : field \in Elements(node.fields)}
      [] OTHER -> {}

RECURSIVE Descendants(_)
Descendants(node) == {node} \cup UNION {Descendants(child) : child \in Children(node)}

Contains(outer, inner) == outer.start <= inner.start /\ inner.end <= outer.end

\* C23: the span of every expression and block node the parser produces
\* contains the spans of all its child nodes
C23_SpanCoverage ==
    stage = "parsed" =>
        \A node \in Descendants(ast) :
            \A child \in Children(node) : Contains(node.span, child.span)

\* span coverage of the nodes other than `if` and `match` expressions
SpanCoverageElsewhere ==
    stage = "parsed" =>
        \A node \in Descendants(ast) :
            node.kind \notin {"If", "Match"} =>
                \A child \in Children(node) : Contains(node.span, child.span)

----------------------------------------------------------------------------
(* Properties of the driver                                                *)

ErrorStages == {"lex_error", "parse_error", "semantic_error"}

\* the stage changes of the driver: each stage hands over to the next one or
\* ends the run with its error
StageSteps ==
    {<<"lex", "parse">>, <<"lex", "lex_error">>,
     <<"parse", "collect">>, <<"parse", "parse_error">>,
     <<"collect", "check">>, <<"collect", "semantic_error">>,
     <<"check", "codegen">>, <<"check", "semantic_error">>,
     <<"codegen", "done">>}

\* C24: the stages run in the order lexer, parser, semantic analyzer, emitter;
\* a stage starts only when no error has been returned; after the first error
\* nothing runs any more, that error is the result, and no IR is produced
C24_StagesInOrder ==
    [][/\ stage' # stage => <<stage, stage'>> \in StageSteps
       /\ stage \in ErrorStages => UNCHANGED vars
       /\ error # NoError => UNCHANGED vars
       /\ error' # NoError <=> stage' \in ErrorStages
       /\ stage' \in ErrorStages => ir' = <<>>
       /\ ir' # ir => stage = "codegen" /\ error = NoError
       /\ tokens' # tokens => stage = "lex"
       /\ ast' # ast => stage = "parse"
       /\ <<symbols', log'>> # <<symbols, log>> => stage \in {"parse", "collect", "check"}]_vars

\* the analyzer returned an error after the lexer and the parser had succeeded,
\* and the emitter did not run
C24_Witness ==
    /\ stage = "semantic_error"
    /\ error # NoError
    /\ ast # Nil
    /\ Len(ast.items) > 1
    /\ ir = <<>>

----------------------------------------------------------------------------
(* Properties of let bindings                                              *)

\* the statements of a function body in which `return x` follows a typed
\* `let x: T = e` with no other binding of x between them
ReturnsOfTypedLets(func) ==
    {<<a, b>> \in (1..Len(func.body.stmts)) \X (1..Len(func.body.stmts)) :
        LET stmts == func.body.stmts IN
        /\ a < b
        /\ stmts[a].stmt = "Let"
        /\ stmts[a].ty # NoneOpt
        /\ stmts[b].stmt = "Return"
        /\ stmts[b].value # NoneOpt
        /\ stmts[b].value[1].kind = "Ident"
        /\ stmts[b].value[1].name = stmts[a].name.value
        /\ \A c \in (a + 1)..(b - 1) :
               stmts[c].stmt = "Let" => stmts[c].name.value # stmts[a].name.value}

\* the return events the checker logged for an item, in order
ReturnEventsOf(i) == {k \in Events("return") : log[k].item = i}

\* C25: after `let x: T = e` is accepted, a later use of x has the declared
\* type T, also when the type of e is Unknown: a `return x` of a function whose
\* only return it is finds the resolved T
C25_DeclaredTypeKept ==
    Parsed =>
    \A i \in FunctionItems :
        \A pair \in ReturnsOfTypedLets(ast.items[i]) :
            \A k \in ReturnEventsOf(i) :
                Cardinality(ReturnEventsOf(i)) = 1 =>
                    log[k].event.found = resolve_type(ast.items[i].body.stmts[pair[1]].ty[1])

\* the same for initializers whose type is known
DeclaredTypeOfKnownInit ==
    Parsed =>
    \A i \in FunctionItems :
        \A pair \in ReturnsOfTypedLets(ast.items[i]) :
            \A k \in ReturnEventsOf(i) :
                (Cardinality(ReturnEventsOf(i)) = 1 /\ log[k].event.found # Unknown) =>
                    log[k].event.found = resolve_type(ast.items[i].body.stmts[pair[1]].ty[1])

----------------------------------------------------------------------------
(* Properties of the patterns                                              *)

\* a pattern without its literal values
RECURSIVE PatternShape(_)
PatternShape(pat) ==
    CASE pat.pattern = "Wildcard" -> "Wildcard"
      [] pat.pattern = "Ident" -> <<"Ident", pat.name>>
      [] pat.pattern = "Literal" -> <<"Literal", pat.lit>>
      [] pat.pattern = "Variant" ->
           <<"Variant", pat.name,
             [i \in 1..Len(pat.patterns) |-> PatternShape(pat.patterns[i])]>>
      [] pat.pattern = "Tuple" ->
           <<"Tuple", [i \in 1..Len(pat.patterns) |-> PatternShape(pat.patterns[i])]>>

\* C26: parse_pattern accepts every pattern form, nested ones included:
\* wildcard, identifier, integer, string and boolean literals, tuples and variants
C26_PatternForms ==
    \A entry \in PatternTable :
        ExprParsed /\ source = MatchOn(entry.text) =>
            /\ stage = "parsed"
            /\ ast.kind = "Match"
            /\ Len(ast.arms) = 1
            /\ PatternShape(ast.arms[1].pattern) = entry.shape

\* the same for the forms that hold no tuple
PatternFormsWithoutTuple ==
    \A entry \in PatternTable :
        (/\ ExprParsed
         /\ source = MatchOn(entry.text)
         /\ \A i \in 1..Len(entry.text) : entry.text[i] = "(" => i > 1 /\ entry.text[i - 1] # "(") =>
            /\ stage = "parsed"
            /\ ast.kind = "Match"
            /\ Len(ast.arms) = 1
            /\ PatternShape(ast.arms[1].pattern) = entry.shape

----------------------------------------------------------------------------
(* Properties of the checking pass                                         *)

\* check_module has returned Ok
Checked == stage \in {"codegen", "done"}

\* the names of the functions each item holds: a top-level function, or the
\* methods of an impl block
FunctionsOf(item) ==
    CASE item.item = "Function" -> {item.name.value}
      [] item.item = "Impl" -> {item.methods[m].name.value : m \in 1..Len(item.methods)}
      [] OTHER -> {}

\* check_function went through the body of the function `name` of item i
BodyChecked(i, name) ==
    \E k \in Events("body") : log[k].item = i /\ log[k].event.name = name

\* C27: when check_module returns Ok, the body of every function of the module
\* has been type-checked, top-level functions and methods of impl blocks alike
C27_EveryBodyChecked ==
    Checked =>
        \A i \in 1..Len(ast.items) :
            \A name \in FunctionsOf(ast.items[i]) : BodyChecked(i, name)

\* the same for the top-level functions alone
TopLevelBodiesChecked ==
    Checked => \A i \in FunctionItems : BodyChecked(i, ast.items[i].name.value)

----------------------------------------------------------------------------
(* Properties of the diagnostics                                           *)

\* check_module failed on a return whose value does not fit the declared type
ReturnMismatchReported ==
    /\ stage = "semantic_error"
    /\ Len(log) > 0
    /\ log[Len(log)].event.ev = "return"
    /\ log[Len(log)].event.mismatch

\* the source ranges of the return statements: from the `return` keyword to
\* the end of the next terminator
ReturnRanges ==
    {Span(tokens[i].span.start, tokens[j].span.end) :
        <<i, j>> \in {<<i, j>> \in (1..Len(tokens)) \X (1..Len(tokens)) :
                        /\ tokens[i].kind = "Return"
                        /\ i < j
                        /\ tokens[j].kind = "Semicolon"
                        /\ \A m \in (i + 1)..(j - 1) : tokens[m].kind # "Semicolon"}}

\* C28: the TypeMismatch for a mismatching return carries a span that lies
\* within the source range of a return statement
C28_ReturnMismatchLocated ==
    ReturnMismatchReported =>
        /\ error.kind = "TypeMismatch"
        /\ \E range \in ReturnRanges : Contains(range, error.span)

----------------------------------------------------------------------------
(* Properties of the types of `if` and block expressions                   *)

\* a block of let statements that ends in a literal or in nothing
PlainBlock(block) ==
    /\ \A s \in 1..Len(block.stmts) : block.stmts[s].stmt = "Let"
    /\ block.expr # NoneOpt =>
           \/ block.expr[1].kind \in {"Integer", "Bool"}
           \/ block.expr[1].kind = "Array"

\* the type of such a block: its trailing expression's type, or unit
PlainBlockType(block) ==
    IF block.expr = NoneOpt THEN Primitive("Unit")
    ELSE CASE block.expr[1].kind = "Integer" -> Primitive("I32")
           [] block.expr[1].kind = "Bool" -> Primitive("Bool")
           [] block.expr[1].kind = "Array" -> Unknown

\* an `if` over plain blocks with a comparison as its condition, or a plain block
PlainValue(expr) ==
    \/ /\ expr.kind = "Block"
       /\ PlainBlock(expr.block)
    \/ /\ expr.kind = "If"
       /\ expr.condition.kind = "Binary"
       /\ expr.condition.op = "Eq"
       /\ PlainBlock(expr.then_block)
       /\ \A b \in 1..Len(expr.else_block) : PlainBlock(expr.else_block[b])

\* the type the typing rules give such an expression
PlainValueType(expr) ==
    IF expr.kind = "Block" THEN PlainBlockType(expr.block)
    ELSE IF expr.else_block = NoneOpt THEN Primitive("Unit")
    ELSE LET then_ty == PlainBlockType(expr.then_block)
             else_ty == PlainBlockType(expr.else_block[1])
         IN IF then_ty = else_ty \/ then_ty = Unknown \/ else_ty = Unknown
            THEN then_ty
            ELSE Primitive("Unit")

\* the functions whose body is `return e;` alone, e an `if` or a block as above
ReturnsPlainValue ==
    {i \in FunctionItems :
        LET body == ast.items[i].body IN
        /\ Len(body.stmts) = 1
        /\ body.expr = NoneOpt
        /\ body.stmts[1].stmt = "Return"
        /\ body.stmts[1].value # NoneOpt
        /\ PlainValue(body.stmts[1].value[1])}

\* pass 2 has gone through item i
ItemChecked(i) ==
    \/ stage \in {"codegen", "done", "semantic_error"}
    \/ stage = "check" /\ item_index >= i

\* C29: an `if` with an `else` has the then-branch's type when the branch types
\* are equal or one of them is Unknown, and unit otherwise, with no error; an
\* `if` without `else` has unit; a block has its trailing expression's type, or
\* unit when it has none
C29_IfAndBlockTypes ==
    Parsed =>
        \A i \in ReturnsPlainValue :
            ItemChecked(i) =>
                /\ Cardinality(ReturnEventsOf(i)) = 1
                /\ \A k \in ReturnEventsOf(i) :
                       log[k].event.found =
                           PlainValueType(ast.items[i].body.stmts[1].value[1])

\* an `if` whose branches are an integer and a bool was given the unit type
\* and the module was accepted
C29_Witness ==
    /\ source = SrcIfValueDiffer
    /\ stage = "done"
    /\ \E k \in Events("return") : log[k].event.found = Primitive("Unit")

----------------------------------------------------------------------------
(* The parser on token sequences of any shape                              *)

MaxTokens == 3

\* the tokens the sequences are made of: kind and text
TokenAlphabet ==
    {<<"Fn", "">>, <<"Ident", "a">>, <<"Ident", "_">>, <<"Integer", "1">>,
     <<"LeftParen", "">>, <<"LeftBrace", "">>, <<"RightBrace", "">>, <<"Match", "">>}

\* the token sequence of the given kinds and texts, closed by Eof, token i
\* spanning the bytes i-1..i
TokenSequence(shapes) ==
    [i \in 1..(Len(shapes) + 1) |->
        IF i <= Len(shapes) THEN Token(shapes[i][1], shapes[i][2], i - 1, i)
        ELSE Token("Eof", "", i - 1, i - 1)]

\* Parser::new(tokens) on a token sequence that ends with Eof
TokensInit ==
    /\ source = <<>>
    /\ position = 0
    /\ last_token = None
    /\ pending_semicolon = FALSE
    /\ tokens \in {TokenSequence(shapes) :
                     shapes \in UNION {[1..n -> TokenAlphabet] : n \in 0..MaxTokens}}
    /\ ast = Nil
    /\ symbols = <<>>
    /\ current_function_return = NoneOpt
    /\ item_index = 0
    /\ log = <<>>
    /\ ir = <<>>
    /\ stage = "parse"
    /\ error = NoError

ParserInit == Init \/ TokensInit

ParserSpec == ParserInit /\ [][Next]_vars

\* the position a parsing method returns lies on a token, not before the
\* position it started from, and after it when the method succeeded
Advanced(result, pos) ==
    /\ result.pos \in pos..(Len(tokens) - 1)
    /\ result.ok => result.pos > pos

\* the methods that parse one element of a list or one iteration of a loop
ElementParsers ==
    {"parse_item", "parse_expr", "parse_pattern", "parse_type", "parse_block",
     "parse_unary_expr", "parse_postfix_expr", "parse_primary_expr"}

\* try_parse_stmt gave the position back: the tokens are a trailing expression
Backtracked(pos) ==
    LET stmt == Parser("try_parse_stmt", <<tokens, pos>>)
    IN stmt.ok /\ stmt.node = NoneOpt

\* C30: on a token sequence that ends with Eof parse_module returns a module or
\* an error with the position on a token (at Eof when it succeeds); from every
\* position each element parser returns with the position on a token, never
\* before its start, and past its start when it succeeds; a statement that
\* gives its position back is parsed again as an expression, which advances
C30_ParserAdvances ==
    stage = "parse" =>
        /\ tokens[Len(tokens)].kind = "Eof"
        /\ LET module == Parser("parse_module", <<tokens>>)
           IN /\ module.pos \in 0..(Len(tokens) - 1)
              /\ module.ok => is_at_end(tokens, module.pos)
              /\ ~module.ok => module.err # NoError
        /\ \A pos \in 0..(Len(tokens) - 1) :
              /\ \A method \in ElementParsers :
                     Advanced(Parser(method, <<tokens, pos>>), pos)
              /\ Advanced(Parser("parse_function", <<tokens, pos, FALSE>>), pos)
              /\ LET stmt == Parser("try_parse_stmt", <<tokens, pos>>)
                 IN /\ stmt.pos \in pos..(Len(tokens) - 1)
                    /\ stmt.ok => \/ stmt.pos > pos
                                  \/ /\ stmt.node = NoneOpt
                                     /\ Advanced(Parser("parse_expr", <<tokens, pos>>), pos)

\* a module parsed to its Eof whose tokens hold a trailing expression, found by
\* the backtrack in parse_block, and a wildcard pattern
C30_Witness ==
    /\ stage = "parse"
    /\ Parser("parse_module", <<tokens>>).ok
    /\ \E pos \in 0..(Len(tokens) - 1) : Backtracked(pos)
    /\ \E pos \in 0..(Len(tokens) - 1) :
           /\ tokens[pos + 1].text = "_"
           /\ Parser("parse_pattern", <<tokens, pos>>).ok

====
